---------------------------- MODULE Spec2Model ----------------------------
(***************************************************************************)
(* A model of the Blender builder scripts of the Critical repository:      *)
(*   Assets/Scripts/Blender/create_reactor_panel.py    (build_panel)       *)
(*   Assets/Scripts/Blender/render_panel_textures.py   (render_panel)      *)
(*   Updates/.../RCS_Primary_Loop_Blender.py           (main)              *)
(*   Updates/.../BlenderArcGauge_v1.py                 (main, create_gauge)*)
(*   Archive_DEPRECATED/.../BlenderTemperatureGauge_v1.py                  *)
(*                                             (main, create_bar_gauge)    *)
(*                                                                         *)
(* The scene (bpy.data.objects) is a function from object identities to    *)
(* records.  The field "name" is the name the script assigns to the        *)
(* object; identities, not names, tell objects apart.                      *)
(*                                                                         *)
(* Numbers.  The scripts compute with Python floats; the model computes    *)
(* with exact fixed-point integers.  Panel lengths are in units of 1e-5    *)
(* Blender units, fractions (anchors, percentages) in hundredths.  An      *)
(* object's location is stored doubled (loc2 = 2*location), so that the    *)
(* centre x + width/2 of a box is exact.  Floating-point rounding is not   *)
(* modelled.                                                               *)
(***************************************************************************)
EXTENDS Integers, Sequences, FiniteSets, TLC

VARIABLES
    script,     \* which script is running
    pc,         \* the position of the running script
    objs,       \* bpy.data.objects: identity -> object record
    nextId,     \* the identity the next created object gets
    selected,   \* the selected objects of the view layer
    active,     \* bpy.context.view_layer.objects.active (0 = None)
    mats,       \* bpy.data.materials: name -> material record
    root,       \* the root object the script created (0 = not yet)
    failed,     \* the objects whose modifier_apply raised (history)
    before,     \* the scene, materials and host before the script ran (history)
    cfg,        \* the gauge configuration, or the arguments of a function call
    locals,     \* the local variables of the running function
    scene,      \* bpy.context.scene: the scene camera and the render settings
    env,        \* the host outside the scene: file system, .blend path, GPU
    OUTPUT_DIR, \* the module global of render_panel_textures.py
    result,     \* the value the script's entry function returned
    log         \* the host operations performed so far, in order (history)

gaugeVars == <<cfg, locals>>
renderVars == <<scene, env, OUTPUT_DIR, result, log>>
vars == <<script, pc, objs, nextId, selected, active, mats, root, failed, before,
          cfg, locals, scene, env, OUTPUT_DIR, result, log>>

(***************************************************************************)
(* Bounds of the model.                                                    *)
(***************************************************************************)
\* the number of objects the scene may hold before a script is run
MaxPre == 1

(***************************************************************************)
(* Generic helpers.                                                        *)
(***************************************************************************)
Range(f) == {f[i] : i \in DOMAIN f}

\* v * p / 100 for a fraction p given in hundredths
Pct(v, p) == (v * p) \div 100

Min2(a, b) == IF a <= b THEN a ELSE b

\* the objects of a sequence, given the identities first, first+1, ...
Numbered(first, seq) ==
    [i \in first .. (first + Len(seq) - 1) |-> seq[i - first + 1]]

\* f extended by g (disjoint domains)
Merge(f, g) ==
    [i \in (DOMAIN f) \cup (DOMAIN g) |-> IF i \in DOMAIN g THEN g[i] ELSE f[i]]

RECURSIVE Flatten(_)
Flatten(ss) == IF ss = <<>> THEN <<>> ELSE Head(ss) \o Flatten(Tail(ss))

\* str(i) for the small indices the scripts format into names
Digits == <<"0", "1", "2", "3", "4", "5", "6", "7", "8", "9">>
Str(i) == IF i < 10 THEN Digits[i + 1]
          ELSE Digits[(i \div 10) + 1] \o Digits[(i % 10) + 1]
\* f"{i:02d}"
Str02(i) == Digits[(i \div 10) + 1] \o Digits[(i % 10) + 1]

(***************************************************************************)
(* Objects.                                                                *)
(***************************************************************************)
NoParent == 0

\* Python's None
None == "None"

\* no configuration, no local variables, no host environment
NoConfig == [name |-> None]
NoLocals == [fn |-> None]
NoEnv == [blend_path |-> <<>>]

\* a path is the sequence of its components; the empty path stands for None
\* and for the empty string, which Python both takes as false
NoPath == <<>>

\* the settings of a new scene: no camera, the default engine, no output path
DefaultScene ==
    [camera |-> 0, engine |-> "BLENDER_EEVEE", device |-> "CPU", samples |-> 0,
     resolution |-> <<1920, 1080>>, file_format |-> "PNG", color_mode |-> "RGB",
     film_transparent |-> FALSE, filepath |-> <<"/", "tmp">>]

\* an object record; loc2 is the doubled location, dim the mesh dimensions
Obj(name, type, parent, mods, mat, loc2, dim) ==
    [name |-> name, type |-> type, parent |-> parent, mods |-> mods,
     hidden |-> FALSE, mat |-> mat, loc2 |-> loc2, dim |-> dim, body |-> ""]

\* the extent [Lo, Hi] of an object along axis k (1 = x, 2 = y, 3 = z)
Lo(o, k) == (o.loc2[k] - o.dim[k]) \div 2
Hi(o, k) == (o.loc2[k] + o.dim[k]) \div 2

\* objects the scene held before the script ran
PreIds == 1 .. MaxPre
IsPre(i) == i \in PreIds

\* what the scene may hold before a script is run: a mesh with a modifier on
\* it, or a camera, either visible or hidden in the viewport
PreKinds ==
    { [name |-> "Cube", type |-> "MESH", parent |-> NoParent, mods |-> 1,
       hidden |-> h, mat |-> "", loc2 |-> <<0, 0, 0>>,
       dim |-> <<200000, 200000, 200000>>, body |-> ""]
        : h \in BOOLEAN }
    \cup
    { [name |-> "Camera", type |-> "CAMERA", parent |-> NoParent, mods |-> 0,
       hidden |-> h, mat |-> "", loc2 |-> <<0, 0, 0>>, dim |-> <<0, 0, 0>>, body |-> ""]
        : h \in BOOLEAN }

PreScenes == UNION { [1 .. n -> PreKinds] : n \in 0 .. MaxPre }


(***************************************************************************)
(* create_reactor_panel.py: configuration (lengths in 1e-5 Blender units). *)
(***************************************************************************)
PANEL_WIDTH == 1920000
PANEL_HEIGHT == 1080000
PANEL_DEPTH == 15000
BEZEL_DEPTH == 8000
BEZEL_BEVEL == 2000
RECESS_DEPTH == 6000
SECTION_DIVIDER_WIDTH == 3000
\* frame_w of create_bezel: the border thickness of a bezel
FRAME_W == 4000
\* gauge_padding and gauge_top_margin of build_panel
GAUGE_PADDING == 8000
GAUGE_TOP_MARGIN == 35000

BANK_NAMES_SHORT == <<"SA", "SB", "SC", "SD", "D", "C", "B", "A">>

(***************************************************************************)
(* create_reactor_panel.py: utility functions.                             *)
(***************************************************************************)
\* a new material with the default node tree of "use_nodes = True"
create_material(name) ==
    [use_nodes |-> TRUE,
     nodes |-> {"Principled BSDF", "Material Output"},
     links |-> {<<"Principled BSDF", "Material Output">>},
     blend |-> "OPAQUE"]

PanelMaterialNames ==
    <<"Panel_Base", "Bezel", "Recess_Display", "Label_Engraved", "Divider",
      "Accent_Green", "Accent_Red">>

\* a cube of size 1 at (x + width/2, y + height/2, z + depth/2), scaled to
\* (width, height, depth); a Bevel modifier when bevel_width > 0
create_box(name, x, y, z, width, height, depth, material, bevel_width, parent) ==
    Obj(name, "MESH", parent, IF bevel_width > 0 THEN 1 ELSE 0, material,
        <<2 * x + width, 2 * y + height, 2 * z + depth>>,
        <<width, height, depth>>)

create_recessed_area(name, x, y, width, height, material, parent) ==
    create_box(name, x, y, -RECESS_DEPTH, width, height, RECESS_DEPTH,
               material, 0, parent)

\* a bezel without its recessed interior
create_bezel_NoRecess(name, x, y, width, height, material, parent) ==
    << create_box(name \o "_top", x, y + height - FRAME_W, 0,
                  width, FRAME_W, BEZEL_DEPTH, material, BEZEL_BEVEL, parent),
       create_box(name \o "_bot", x, y, 0,
                  width, FRAME_W, BEZEL_DEPTH, material, BEZEL_BEVEL, parent),
       create_box(name \o "_left", x, y, 0,
                  FRAME_W, height, BEZEL_DEPTH, material, BEZEL_BEVEL, parent),
       create_box(name \o "_right", x + width - FRAME_W, y, 0,
                  FRAME_W, height, BEZEL_DEPTH, material, BEZEL_BEVEL, parent) >>

\* four raised bars around a recessed interior
create_bezel(name, x, y, width, height, material, parent) ==
    << create_box(name \o "_top", x, y + height - FRAME_W, 0,
                  width, FRAME_W, BEZEL_DEPTH, material, BEZEL_BEVEL, parent),
       create_box(name \o "_bot", x, y, 0,
                  width, FRAME_W, BEZEL_DEPTH, material, BEZEL_BEVEL, parent),
       create_box(name \o "_left", x, y, 0,
                  FRAME_W, height, BEZEL_DEPTH, material, BEZEL_BEVEL, parent),
       create_box(name \o "_right", x + width - FRAME_W, y, 0,
                  FRAME_W, height, BEZEL_DEPTH, material, BEZEL_BEVEL, parent),
       create_recessed_area(name \o "_display", x + FRAME_W, y + FRAME_W,
                  width - 2 * FRAME_W, height - 2 * FRAME_W,
                  "Recess_Display", parent) >>

create_gauge_bezel(name, x, y, width, height, parent) ==
    create_bezel(name, x, y, width, height, "Bezel", parent)

create_section_divider(x, y, width, height, parent) ==
    create_box("Divider", x, y, 0, width, height, 2000, "Divider", 500, parent)

create_text_label(name, text, x, y, z, parent) ==
    [Obj(name, "FONT", parent, 0, "Label_Engraved",
         <<2 * x, 2 * y, 2 * z>>, <<0, 0, 0>>) EXCEPT !.body = text]

\* anchor_to_panel with every coordinate scaled by the panel width
anchor_to_panel_WidthOnly(ax, ay, aw, ah) ==
    << Pct(PANEL_WIDTH, ax), Pct(PANEL_WIDTH, ay),
       Pct(PANEL_WIDTH, aw), Pct(PANEL_WIDTH, ah) >>

\* anchor coordinates in hundredths -> panel coordinates <<x, y, w, h>>
anchor_to_panel(ax, ay, aw, ah) ==
    << Pct(PANEL_WIDTH, ax), Pct(PANEL_HEIGHT, ay),
       Pct(PANEL_WIDTH, aw), Pct(PANEL_HEIGHT, ah) >>

(***************************************************************************)
(* create_reactor_panel.py: the sections of build_panel.  Each operator    *)
(* gives, in creation order, the objects one section creates; r is the     *)
(* panel root they are parented to.                                        *)
(***************************************************************************)
gauge_names_left ==
    <<"NeutronPower", "ThermalPower", "StartupRate", "Period",
      "Reactivity", "Keff", "Boron", "Xenon", "RCSFlow">>

gauge_names_right ==
    <<"Tavg", "Thot", "Tcold", "DeltaT",
      "FuelCenterline", "HotChannel", "Pressure", "PZRLevel">>

mode_labels == <<"POWER", "FUELTEMP", "COOLANT", "RODBANKS">>

bank_labels == <<"ALL", "SA", "SB", "SC", "SD", "D", "C", "B", "A">>

ann_labels ==
    <<"REACTOR TRIPPED", "NEUTRON POWER HI", "STARTUP RATE HI", "ROD BOTTOM ALARM",
      "PRESS LOW", "PRESS HIGH", "T-AVG LOW", "T-AVG HIGH",
      "SUBCOOL LOW", "PZR LVL LOW", "PZR LVL HIGH", "OVERPOWER DT",
      "REACTOR CRITICAL", "AUTO ROD CONTROL", "PZR HTRS ON", "LOW FLOW">>

\* the rows and columns of the annunciator tile grid
ann_cols == 8
ann_rows == 2

MainPanelBody(r) ==
    << create_box("MainPanel", 0, 0, -PANEL_DEPTH,
                  PANEL_WIDTH, PANEL_HEIGHT, PANEL_DEPTH, "Panel_Base", 3000, r) >>

\* a column of n gauge bezels, evenly spaced below the section label
GaugeColumn(prefix, names, a, r) ==
    LET n  == Len(names)
        gh == (a[4] - GAUGE_TOP_MARGIN - GAUGE_PADDING - GAUGE_PADDING * (n - 1)) \div n
        gw == a[3] - GAUGE_PADDING * 2
    IN  Flatten([i \in 1 .. n |->
            create_gauge_bezel(prefix \o names[i],
                a[1] + GAUGE_PADDING,
                a[2] + a[4] - GAUGE_TOP_MARGIN - i * (gh + GAUGE_PADDING) + GAUGE_PADDING,
                gw, gh, r)])

LeftGaugePanel(r) ==
    LET a == anchor_to_panel(0, 26, 15, 74)
    IN  << create_text_label("Label_LeftPanel", "NUCLEAR INSTRUMENTATION",
               a[1] + a[3] \div 2, a[2] + a[4] - 10000, 100, r) >>
        \o GaugeColumn("Gauge_L_", gauge_names_left, a, r)

CoreMapPanel(r) ==
    LET a  == anchor_to_panel(15, 26, 50, 74)
        cx == a[1]
        cy == a[2]
        cw == a[3]
        ch == a[4]
        btn_w == Pct(cw, 90) \div 4
        filt_btn_w == Pct(cw, 90) \div 9
    IN  << create_text_label("Label_CoreMap", "REACTOR CORE",
               cx + cw \div 2, cy + ch - 10000, 100, r) >>
        \o Flatten([i \in 1 .. Len(mode_labels) |->
              create_bezel("ModeBtn_" \o mode_labels[i],
                  cx + Pct(cw, 5) + (i - 1) * btn_w + 4000 * (i - 1),
                  cy + Pct(ch, 90), btn_w - 2000, Pct(ch, 8), "Bezel", r)])
        \o create_bezel("CoreMapFrame", cx + Pct(cw, 5), cy + Pct(ch, 12),
                        Pct(cw, 90), Pct(ch, 76), "Bezel", r)
        \o Flatten([i \in 1 .. Len(bank_labels) |->
              create_bezel("BankBtn_" \o bank_labels[i],
                  cx + Pct(cw, 5) + (i - 1) * filt_btn_w + 2000 * (i - 1),
                  cy + Pct(ch, 2), filt_btn_w - 1000, Pct(ch, 8), "Bezel", r)])

RightGaugePanel(r) ==
    LET a == anchor_to_panel(65, 26, 15, 74)
    IN  << create_text_label("Label_RightPanel", "THERMAL-HYDRAULIC",
               a[1] + a[3] \div 2, a[2] + a[4] - 10000, 100, r) >>
        \o GaugeColumn("Gauge_R_", gauge_names_right, a, r)

DetailPanel(r) ==
    LET a == anchor_to_panel(80, 26, 20, 74)
    IN  << create_text_label("Label_Detail", "ASSEMBLY DETAIL",
               a[1] + a[3] \div 2, a[2] + a[4] - 10000, 100, r),
           create_recessed_area("DetailDisplay", a[1] + 6000, a[2] + 6000,
               a[3] - 12000, a[4] - 45000, "Recess_Display", r) >>

\* a section whose frame takes the full height of the bottom panel
BottomSection_FullHeight(frame, label, text, fx, fy, fw, fh, b, r) ==
    LET x == b[1] + Pct(b[3], fx)
        y == b[2] + Pct(b[4], 5)
        w == Pct(b[3], fw)
        h == Pct(b[4], 90)
    IN  create_bezel(frame, x, y, w, h, "Bezel", r)
        \o << create_text_label(label, text, x + w \div 2, y + h + 4000, 100, r) >>

\* a framed section of the bottom panel with its label above it; fx, fy, fw,
\* fh are hundredths of the bottom panel's width and height
BottomSection(frame, label, text, fx, fy, fw, fh, b, r) ==
    LET x == b[1] + Pct(b[3], fx)
        y == b[2] + Pct(b[4], fy)
        w == Pct(b[3], fw)
        h == Pct(b[4], fh)
    IN  create_bezel(frame, x, y, w, h, "Bezel", r)
        \o << create_text_label(label, text, x + w \div 2, y + h + 4000, 100, r) >>

AnnunciatorTiles(al_x, al_y, al_w, al_h, r) ==
    LET ann_inner_x == al_x + FRAME_W + 6000
        ann_inner_y == al_y + FRAME_W + 4000
        ann_inner_w == al_w - 2 * FRAME_W - 12000
        ann_inner_h == al_h - 2 * FRAME_W - 8000
        ann_gap     == 3000
        ann_tile_w  == (ann_inner_w - (ann_cols - 1) * ann_gap) \div ann_cols
        ann_tile_h  == (ann_inner_h - (ann_rows - 1) * ann_gap) \div ann_rows
    IN  Flatten([k \in 1 .. ann_rows * ann_cols |->
            LET idx    == k - 1
                row    == idx \div ann_cols
                col    == idx % ann_cols
                tile_x == ann_inner_x + col * (ann_tile_w + ann_gap)
                tile_y == ann_inner_y + (ann_rows - 1 - row) * (ann_tile_h + ann_gap)
            IN  << create_recessed_area("AnnTile_" \o Str02(idx),
                       tile_x, tile_y, ann_tile_w, ann_tile_h, "Recess_Display", r),
                   create_text_label("AnnLabel_" \o Str02(idx), ann_labels[idx + 1],
                       tile_x + ann_tile_w \div 2, tile_y + ann_tile_h \div 2,
                       -RECESS_DEPTH + 200, r) >>])

BottomPanel(r) ==
    LET b    == anchor_to_panel(0, 0, 100, 26)
        bp_x == b[1] + Pct(b[3], 16)
        bp_y == b[2] + Pct(b[4], 55)
        bp_w == Pct(b[3], 29)
        bp_h == Pct(b[4], 40)
        bar_w == (bp_w - 20000) \div 8
        bc_x == b[1] + Pct(b[3], 46)
        bc_y == b[2] + Pct(b[4], 55)
        bc_w == Pct(b[3], 14)
        bc_h == Pct(b[4], 40)
        tc_x == b[1] + Pct(b[3], 61)
        tc_y == b[2] + Pct(b[4], 55)
        tc_w == Pct(b[3], 14)
        tc_h == Pct(b[4], 40)
        trip_btn_size == Min2(Pct(tc_w, 40), Pct(tc_h, 50))
        tm_x == b[1] + Pct(b[3], 76)
        tm_y == b[2] + Pct(b[4], 55)
        tm_w == Pct(b[3], 23)
        tm_h == Pct(b[4], 40)
        al_x == b[1] + Pct(b[3], 1)
        al_y == b[2] + Pct(b[4], 5)
        al_w == Pct(b[3], 98)
        al_h == Pct(b[4], 45)
    IN  << create_section_divider(0, b[4], PANEL_WIDTH, SECTION_DIVIDER_WIDTH, r) >>
        \o BottomSection("RodControlFrame", "Label_RodControl", "ROD CONTROL",
                         1, 55, 14, 40, b, r)
        \o BottomSection("BankPositionsFrame", "Label_BankPos", "BANK POSITIONS",
                         16, 55, 29, 40, b, r)
        \o [i \in 1 .. 8 |->
              create_recessed_area("BankBar_" \o BANK_NAMES_SHORT[i],
                  bp_x + 10000 + (i - 1) * (bar_w + 500), bp_y + 10000,
                  bar_w, bp_h - 20000, "Recess_Display", r)]
        \o BottomSection("BoronControlFrame", "Label_Boron", "BORON CONTROL",
                         46, 55, 14, 40, b, r)
        \o << create_recessed_area("BoronReadout", bc_x + 8000, bc_y + 6000,
                  bc_w - 16000, Pct(bc_h, 30), "Recess_Display", r) >>
        \o BottomSection("TripControlFrame", "Label_Trip", "TRIP CONTROL",
                         61, 55, 14, 40, b, r)
        \o << create_box("TripBtnRing", tc_x + Pct(tc_w, 15), tc_y + Pct(tc_h, 25), 0,
                  trip_btn_size, trip_btn_size, Pct(BEZEL_DEPTH, 80),
                  "Accent_Red", 1500, r) >>
        \o BottomSection("TimeControlFrame", "Label_Time", "TIME CONTROL",
                         76, 55, 23, 40, b, r)
        \o << create_recessed_area("SimTimeReadout", tm_x + 6000, tm_y + Pct(tm_h, 50),
                  Pct(tm_w, 45), Pct(tm_h, 30), "Recess_Display", r),
              create_recessed_area("TimeCompReadout", tm_x + Pct(tm_w, 55),
                  tm_y + Pct(tm_h, 50), Pct(tm_w, 35), Pct(tm_h, 30),
                  "Recess_Display", r) >>
        \o BottomSection("AnnunciatorFrame", "Label_Annunciator", "ANNUNCIATOR PANEL",
                         1, 5, 98, 45, b, r)
        \o AnnunciatorTiles(al_x, al_y, al_w, al_h, r)

\* the three vertical dividers between the upper panels
SectionDividers(r) ==
    [i \in 1 .. 3 |->
        create_section_divider(
            anchor_to_panel(<<15, 65, 80>>[i], 26, 0, 74)[1] - SECTION_DIVIDER_WIDTH \div 2,
            anchor_to_panel(0, 26, 0, 0)[2],
            SECTION_DIVIDER_WIDTH,
            anchor_to_panel(0, 0, 0, 74)[4], r)]

\* the three lights left without a parent
Lights_Unparented(r) ==
    << Obj("KeyLight", "LIGHT", NoParent, 0, "",
           <<PANEL_WIDTH, PANEL_HEIGHT, 1000000>>, <<0, 0, 0>>),
       Obj("FillLight", "LIGHT", NoParent, 0, "",
           <<PANEL_WIDTH, -400000, 600000>>, <<0, 0, 0>>),
       Obj("RimLight", "LIGHT", NoParent, 0, "",
           <<PANEL_WIDTH, 2 * (PANEL_HEIGHT + 200000), 800000>>, <<0, 0, 0>>) >>

\* the three area lights of the render set-up
Lights(r) ==
    << Obj("KeyLight", "LIGHT", r, 0, "",
           <<PANEL_WIDTH, PANEL_HEIGHT, 1000000>>, <<0, 0, 0>>),
       Obj("FillLight", "LIGHT", r, 0, "",
           <<PANEL_WIDTH, -400000, 600000>>, <<0, 0, 0>>),
       Obj("RimLight", "LIGHT", r, 0, "",
           <<PANEL_WIDTH, 2 * (PANEL_HEIGHT + 200000), 800000>>, <<0, 0, 0>>) >>

(***************************************************************************)
(* Scene operations of the host that the scripts call.                     *)
(***************************************************************************)
\* bpy.ops.object.select_all(action='SELECT'): every object that is visible
\* in the viewport becomes selected; hidden objects are not selectable
select_all(os) == {i \in DOMAIN os : ~os[i].hidden}

\* bpy.ops.object.delete(use_global=False): the selected objects leave the
\* scene; a child of a deleted object loses its parent
delete_objects(os, sel) ==
    [i \in (DOMAIN os) \ sel |->
        IF os[i].parent \in sel THEN [os[i] EXCEPT !.parent = NoParent] ELSE os[i]]

\* clear_scene without its two calls: nothing leaves the scene
clear_scene_Skipped(os) == os

\* clear_scene: select all, delete
clear_scene(os) == delete_objects(os, select_all(os))

\* clear_scene's orphan clean-up: materials without users are removed
remove_orphans(ms, os) ==
    [m \in {n \in DOMAIN ms : \E i \in DOMAIN os : os[i].mat = n} |-> ms[m]]

\* the scene after the objects of seq were created one after the other
AddObjects(os, first, seq) == Merge(os, Numbered(first, seq))

\* every bpy.ops.*_add leaves the new object the active and only selected one
Create(seq) ==
    /\ objs' = AddObjects(objs, nextId, seq)
    /\ nextId' = nextId + Len(seq)
    /\ active' = nextId + Len(seq) - 1
    /\ selected' = {nextId + Len(seq) - 1}

(***************************************************************************)
(* create_reactor_panel.py: build_panel, one action per section.           *)
(***************************************************************************)
PanelClear ==
    /\ script = "panel" /\ pc = "start"
    /\ objs' = clear_scene(objs)
    /\ mats' = remove_orphans(mats, clear_scene(objs))
    /\ selected' = {}
    /\ active' = IF active \in DOMAIN clear_scene(objs) THEN active ELSE 0
    /\ pc' = "materials"
    /\ UNCHANGED <<script, nextId, root, failed, before, gaugeVars, renderVars>>

\* the seven materials, then the empty "ReactorOperatorPanel"
PanelMaterials ==
    /\ script = "panel" /\ pc = "materials"
    /\ mats' = [m \in (DOMAIN mats) \cup Range(PanelMaterialNames) |->
                   IF m \in Range(PanelMaterialNames) THEN create_material(m)
                   ELSE mats[m]]
    /\ Create(<< Obj("ReactorOperatorPanel", "EMPTY", NoParent, 0, "",
                     <<0, 0, 0>>, <<0, 0, 0>>) >>)
    /\ root' = nextId
    /\ pc' = "body"
    /\ UNCHANGED <<script, failed, before, gaugeVars, renderVars>>

PanelSection(here, seq, next) ==
    /\ script = "panel" /\ pc = here
    /\ Create(seq)
    /\ pc' = next
    /\ UNCHANGED <<script, mats, root, failed, before, gaugeVars, renderVars>>

PanelBody     == PanelSection("body", MainPanelBody(root), "left")
PanelLeft     == PanelSection("left", LeftGaugePanel(root), "core")
PanelCore     == PanelSection("core", CoreMapPanel(root), "right")
PanelRight    == PanelSection("right", RightGaugePanel(root), "detail")
PanelDetail   == PanelSection("detail", DetailPanel(root), "bottom")
PanelBottom   == PanelSection("bottom", BottomPanel(root), "dividers")
PanelDividers == PanelSection("dividers", SectionDividers(root), "modifiers")

\* the objects the modifier loop visits: the meshes that carry modifiers
HasModifiers(o) == o.type = "MESH" /\ o.mods > 0
WithModifiers(os) == {i \in DOMAIN os : HasModifiers(os[i])}

\* which applications raise in one run: none, any single one, or all
FailChoices(cands) == {{}} \cup {{i} : i \in cands} \cup {cands}

\* bpy.ops.object.modifier_apply: the modifier is applied and removed, or the
\* operator raises and the modifier stays
modifier_apply(o, raises) == IF raises THEN o ELSE [o EXCEPT !.mods = 0]

AfterModifiers_Uncaught(fail) == IF fail = {} THEN "lighting" ELSE "aborted"
\* try: modifier_apply ... except: pass -- the loop and the script go on
AfterModifiers(fail) == "lighting"

PanelApplyModifiers ==
    /\ script = "panel" /\ pc = "modifiers"
    /\ \E fail \in FailChoices(WithModifiers(objs)) :
          /\ objs' = [i \in DOMAIN objs |->
                        IF HasModifiers(objs[i])
                        THEN modifier_apply(objs[i], i \in fail) ELSE objs[i]]
          /\ failed' = fail
          /\ pc' = AfterModifiers(fail)
    \* the loop makes each visited object the active one, in creation order
    /\ active' = IF \A i \in DOMAIN objs : ~HasModifiers(objs[i]) THEN active
                 ELSE CHOOSE i \in DOMAIN objs :
                        /\ HasModifiers(objs[i])
                        /\ \A j \in DOMAIN objs : HasModifiers(objs[j]) => j <= i
    /\ UNCHANGED <<script, nextId, selected, mats, root, before, gaugeVars, renderVars>>

\* the three lights, then: deselect all, select the root, make it active
PanelLighting ==
    /\ script = "panel" /\ pc = "lighting"
    /\ objs' = AddObjects(objs, nextId, Lights(root))
    /\ nextId' = nextId + Len(Lights(root))
    /\ selected' = {root}
    /\ active' = root
    /\ pc' = "done"
    /\ UNCHANGED <<script, mats, root, failed, before, gaugeVars, renderVars>>

NextPanel ==
    \/ PanelClear \/ PanelMaterials \/ PanelBody \/ PanelLeft \/ PanelCore
    \/ PanelRight \/ PanelDetail \/ PanelBottom \/ PanelDividers
    \/ PanelApplyModifiers \/ PanelLighting

(***************************************************************************)
(* RCS_Primary_Loop_Blender.py: configuration and geometry.  Lengths are   *)
(* in hundredths of a foot, angles in whole degrees; cosines and sines are *)
(* tabulated in ten-thousandths for the angles the script uses.            *)
(***************************************************************************)
RV_RADIUS == 720
LOOP_RADIUS == 3500
RV_NOZZLE_HEIGHT == 1000
SG_INLET_HEIGHT == 1200
SG_LOWER_RADIUS == 560
SG_TRANSITION_HEIGHT == 2500
RV_HEIGHT == 4000
RCP_HEIGHT == 800
RCP_BODY_HEIGHT == 800
PZR_ELEVATION == 1500
PZR_HEIGHT == 5300

\* math.cos and math.sin of an angle in degrees, times 10000
CosTable ==
    [a \in {0, 45, 70, 75, 90, 135, 160, 165, 180, 225, 250, 270, 315, 340} |->
        CASE a = 0 -> 10000 [] a = 45 -> 7071 [] a = 70 -> 3420 [] a = 75 -> 2588
          [] a = 90 -> 0
          [] a = 135 -> -7071 [] a = 160 -> -9397 [] a = 165 -> -9659
          [] a = 180 -> -10000 [] a = 225 -> -7071 [] a = 250 -> -3420
          [] a = 270 -> 0 [] a = 315 -> 7071 [] a = 340 -> 9397]
Cos(a) == CosTable[a % 360]
Sin(a) == CosTable[(a + 270) % 360]

\* c * r for a tabulated cosine or sine c, rounded towards zero
Scaled(c, r) == IF c >= 0 THEN (c * r) \div 10000 ELSE -(((-c) * r) \div 10000)

\* the point at angle a and distance r from the vessel axis, at height z
Polar(a, r, z) == <<Scaled(Cos(a), r), Scaled(Sin(a), r), z>>

\* math.sqrt, rounded down
RECURSIVE SqrtBetween(_, _, _)
SqrtBetween(v, lo, hi) ==
    IF lo >= hi THEN lo
    ELSE LET mid == (lo + hi + 1) \div 2
         IN  IF mid * mid <= v THEN SqrtBetween(v, mid, hi)
             ELSE SqrtBetween(v, lo, mid - 1)
Sqrt(v) == SqrtBetween(v, 0, 46340)

\* the angle of loop i (0-based): 45, 135, 225, 315 degrees
LoopAngle(i) == 45 + i * 90

\* a component joined from several primitives: the object that stays is the
\* active one of the join, its location that of the first primitive
Component(name, parts, loc, parent, material) ==
    [name |-> name, type |-> "MESH", parent |-> parent, mods |-> 0,
     hidden |-> FALSE, mat |-> material, parts |-> parts,
     loc2 |-> <<2 * loc[1], 2 * loc[2], 2 * loc[3]>>]

\* a nozzle stub of the vessel: a cylinder 3.0 long centred 1.5 outside the
\* vessel wall and turned to lie along the radius at the given angle
Nozzle(a, z) ==
    [angle |-> a, z |-> z, inner |-> RV_RADIUS, outer |-> RV_RADIUS + 300]

\* the vessel: body, two heads and, per loop, an outlet nozzle at the loop
\* angle and an inlet nozzle 45 degrees further, all joined into one object
create_reactor_vessel ==
    Component("ReactorVessel", 11, <<0, 0, RV_HEIGHT \div 2>>, NoParent,
              "MAT_ReactorVessel") @@
    [outlets |-> [k \in 1 .. 4 |-> Nozzle(LoopAngle(k - 1), RV_NOZZLE_HEIGHT + 200)],
     inlets |-> [k \in 1 .. 4 |-> Nozzle(LoopAngle(k - 1) + 45, RV_NOZZLE_HEIGHT)]]

create_steam_generator(loop_number, angle) ==
    Component("SteamGenerator_" \o Str(loop_number), 5,
              Polar(angle, LOOP_RADIUS, SG_TRANSITION_HEIGHT \div 2), NoParent,
              "MAT_SteamGenerator")

\* the pump stands at 0.6 of the loop radius, 25 degrees past the loop
\* angle; its position is kept in the custom properties position_x, _y, _z
create_rcp(loop_number, angle) ==
    Component("RCP_" \o Str(loop_number), 3,
              Polar(angle + 25, Pct(LOOP_RADIUS, 60), RCP_HEIGHT + RCP_BODY_HEIGHT \div 2),
              NoParent, "MAT_RCP") @@
    [position |-> Polar(angle + 25, Pct(LOOP_RADIUS, 60), RCP_HEIGHT)]

create_pressurizer ==
    Component("Pressurizer", 3,
              Polar(165, Pct(LOOP_RADIUS, 50), PZR_ELEVATION + PZR_HEIGHT \div 2),
              NoParent, "MAT_Pressurizer") @@
    [position |-> Polar(165, Pct(LOOP_RADIUS, 50), PZR_ELEVATION)]

\* a straight pipe between two points: a cylinder at their midpoint whose
\* depth is their distance
Pipe(name, start, end, material) ==
    [name |-> name, type |-> "MESH", parent |-> NoParent, mods |-> 0,
     hidden |-> FALSE, mat |-> material, parts |-> 1,
     loc2 |-> <<start[1] + end[1], start[2] + end[2], start[3] + end[3]>>,
     start |-> start, end |-> end,
     depth |-> Sqrt((end[1] - start[1]) * (end[1] - start[1])
                    + (end[2] - start[2]) * (end[2] - start[2])
                    + (end[3] - start[3]) * (end[3] - start[3]))]

create_hot_leg(loop_number, angle) ==
    Pipe("HotLeg_" \o Str(loop_number),
         Polar(angle, RV_RADIUS + 200, RV_NOZZLE_HEIGHT + 200),
         Polar(angle, LOOP_RADIUS, SG_INLET_HEIGHT), "MAT_HotLeg")

\* the cold leg led back to the outlet nozzle instead of the inlet nozzle
create_cold_leg_ToOutlet(loop_number, angle, rcp_pos) ==
    Pipe("ColdLeg_" \o Str(loop_number),
         <<rcp_pos[1], rcp_pos[2], rcp_pos[3] + RCP_BODY_HEIGHT \div 2>>,
         Polar(angle, RV_RADIUS + 200, RV_NOZZLE_HEIGHT), "MAT_ColdLeg")

create_cold_leg(loop_number, angle, rcp_pos) ==
    Pipe("ColdLeg_" \o Str(loop_number),
         <<rcp_pos[1], rcp_pos[2], rcp_pos[3] + RCP_BODY_HEIGHT \div 2>>,
         Polar(angle + 45, RV_RADIUS + 200, RV_NOZZLE_HEIGHT), "MAT_ColdLeg")

create_crossover_leg(loop_number, angle, rcp_pos) ==
    Pipe("CrossoverLeg_" \o Str(loop_number),
         Polar(angle, LOOP_RADIUS, SG_LOWER_RADIUS + 200),
         rcp_pos, "MAT_CrossoverLeg")

create_surge_line(pzr_pos) ==
    Pipe("SurgeLine", pzr_pos,
         Polar(135, RV_RADIUS + 500, RV_NOZZLE_HEIGHT + 200), "MAT_HotLeg")

\* the arrow of a leg: shaft and head joined, placed on the leg
create_arrow(name, loc) == Component(name, 2, loc, NoParent, "MAT_FlowArrow")

\* the arrows of the hot legs only
create_flow_arrows_HotOnly ==
    [k \in 1 .. 4 |->
        create_arrow("FlowArrow_HotLeg_" \o Str(k),
            Polar(LoopAngle(k - 1), RV_RADIUS + 1000, RV_NOZZLE_HEIGHT + 200))]

\* the eight arrows, a hot-leg and a cold-leg one per loop
create_flow_arrows ==
    Flatten([k \in 1 .. 4 |->
        << create_arrow("FlowArrow_HotLeg_" \o Str(k),
               Polar(LoopAngle(k - 1), RV_RADIUS + 1000, RV_NOZZLE_HEIGHT + 200)),
           create_arrow("FlowArrow_ColdLeg_" \o Str(k),
               Polar(LoopAngle(k - 1) + 45, RV_RADIUS + 1000, RV_NOZZLE_HEIGHT)) >>])

create_loop_labels ==
    [k \in 1 .. 4 |->
        [name |-> "Label_Loop_" \o Str(k), type |-> "FONT", parent |-> NoParent,
         mods |-> 0, hidden |-> FALSE, mat |-> "", parts |-> 1,
         loc2 |-> <<2 * Polar(LoopAngle(k - 1), LOOP_RADIUS + 1000, 7000)[1],
                    2 * Polar(LoopAngle(k - 1), LOOP_RADIUS + 1000, 7000)[2], 14000>>,
         body |-> "LOOP " \o Str(k)]]

create_empty(name) ==
    [name |-> name, type |-> "EMPTY", parent |-> NoParent, mods |-> 0,
     hidden |-> FALSE, mat |-> "", parts |-> 1, loc2 |-> <<0, 0, 0>>]

\* obj.parent = parent
Parented(o, parent) == [o EXCEPT !.parent = parent]

\* the objects of seq, the k-th of which is joined from seq[k].parts
\* primitives and keeps the identity of the first of them
RECURSIVE JoinedAt(_, _)
JoinedAt(first, seq) ==
    IF seq = <<>> THEN <<>>
    ELSE [i \in {first} |-> Head(seq)]
         @@ JoinedAt(first + Head(seq).parts, Tail(seq))

RECURSIVE PartsOf(_)
PartsOf(seq) == IF seq = <<>> THEN 0 ELSE Head(seq).parts + PartsOf(Tail(seq))

\* the identity of the last object of seq when created from first on
LastAt(first, seq) == first + PartsOf(seq) - seq[Len(seq)].parts

(***************************************************************************)
(* RCS_Primary_Loop_Blender.py: main, one action per section.              *)
(***************************************************************************)
\* the materials ms and the materials named in names, created anew
WithMaterials(ms, names) ==
    [m \in (DOMAIN ms) \cup names |->
        IF m \in names THEN create_material(m) ELSE ms[m]]

\* the objects of seq are created one after the other, each joined from its
\* primitives; the last one is left active and selected
CreateJoined(seq) ==
    /\ objs' = objs @@ JoinedAt(nextId, seq)
    /\ nextId' = nextId + PartsOf(seq)
    /\ active' = LastAt(nextId, seq)
    /\ selected' = {LastAt(nextId, seq)}
    /\ mats' = WithMaterials(mats, {seq[k].mat : k \in DOMAIN seq} \ {""})

RcsClear ==
    /\ script = "rcs" /\ pc = "start"
    /\ objs' = clear_scene(objs)
    /\ mats' = remove_orphans(mats, clear_scene(objs))
    /\ selected' = {}
    /\ active' = IF active \in DOMAIN clear_scene(objs) THEN active ELSE 0
    /\ pc' = "hierarchy"
    /\ UNCHANGED <<script, nextId, root, failed, before, gaugeVars, renderVars>>

\* the root empty and the four group empties, parented to the root
RcsHierarchy ==
    /\ script = "rcs" /\ pc = "hierarchy"
    /\ CreateJoined(<< create_empty("RCS_Primary_Loop"),
                       Parented(create_empty("Components"), nextId),
                       Parented(create_empty("Piping"), nextId),
                       Parented(create_empty("FlowArrows"), nextId),
                       Parented(create_empty("Labels"), nextId) >>)
    /\ root' = nextId
    /\ locals' = [fn |-> "main", components_group |-> nextId + 1,
                  piping_group |-> nextId + 2, arrows_group |-> nextId + 3,
                  labels_group |-> nextId + 4, i |-> 0,
                  rcp_positions |-> <<>>, pzr_pos |-> <<>>]
    /\ pc' = "vessel"
    /\ UNCHANGED <<script, failed, before, cfg, renderVars>>

RcsVessel ==
    /\ script = "rcs" /\ pc = "vessel"
    /\ CreateJoined(<< Parented(create_reactor_vessel, locals.components_group) >>)
    /\ pc' = "loops"
    /\ UNCHANGED <<script, root, failed, before, gaugeVars, renderVars>>

\* one pass of the first loop: the steam generator and the pump of loop i+1
RcsLoopComponents ==
    /\ script = "rcs" /\ pc = "loops" /\ locals.i < 4
    /\ \E rcp \in {create_rcp(locals.i + 1, LoopAngle(locals.i))} :
          /\ CreateJoined(
                << Parented(create_steam_generator(locals.i + 1, LoopAngle(locals.i)),
                            locals.components_group),
                   Parented(rcp, locals.components_group) >>)
          /\ locals' = [locals EXCEPT
                          !.rcp_positions = Append(@, rcp.position),
                          !.i = IF locals.i = 3 THEN 0 ELSE @ + 1]
    /\ pc' = IF locals.i = 3 THEN "pressurizer" ELSE "loops"
    /\ UNCHANGED <<script, root, failed, before, cfg, renderVars>>

RcsPressurizer ==
    /\ script = "rcs" /\ pc = "pressurizer"
    /\ CreateJoined(<< Parented(create_pressurizer, locals.components_group) >>)
    /\ locals' = [locals EXCEPT !.pzr_pos = create_pressurizer.position]
    /\ pc' = "piping"
    /\ UNCHANGED <<script, root, failed, before, cfg, renderVars>>

\* one pass of the second loop: the three pipes of loop i+1
RcsPiping ==
    /\ script = "rcs" /\ pc = "piping" /\ locals.i < 4
    /\ CreateJoined(
          << Parented(create_hot_leg(locals.i + 1, LoopAngle(locals.i)),
                      locals.piping_group),
             Parented(create_crossover_leg(locals.i + 1, LoopAngle(locals.i),
                                           locals.rcp_positions[locals.i + 1]),
                      locals.piping_group),
             Parented(create_cold_leg(locals.i + 1, LoopAngle(locals.i),
                                      locals.rcp_positions[locals.i + 1]),
                      locals.piping_group) >>)
    /\ locals' = [locals EXCEPT !.i = IF locals.i = 3 THEN 0 ELSE @ + 1]
    /\ pc' = IF locals.i = 3 THEN "surge" ELSE "piping"
    /\ UNCHANGED <<script, root, failed, before, cfg, renderVars>>

RcsSurge ==
    /\ script = "rcs" /\ pc = "surge"
    /\ CreateJoined(<< Parented(create_surge_line(locals.pzr_pos), locals.piping_group) >>)
    /\ pc' = "arrows"
    /\ UNCHANGED <<script, root, failed, before, gaugeVars, renderVars>>

RcsArrows ==
    /\ script = "rcs" /\ pc = "arrows"
    /\ CreateJoined([k \in DOMAIN create_flow_arrows |->
                        Parented(create_flow_arrows[k], locals.arrows_group)])
    /\ pc' = "labels"
    /\ UNCHANGED <<script, root, failed, before, gaugeVars, renderVars>>

RcsLabels ==
    /\ script = "rcs" /\ pc = "labels"
    /\ CreateJoined([k \in DOMAIN create_loop_labels |->
                        Parented(create_loop_labels[k], locals.labels_group)])
    /\ pc' = "scene"
    /\ UNCHANGED <<script, root, failed, before, gaugeVars, renderVars>>

\* the root is selected and made active; then the sun and the camera are
\* added, each of which becomes the active and only selected object, and the
\* camera is made the scene camera
RcsSceneSetup ==
    /\ script = "rcs" /\ pc = "scene"
    /\ objs' = objs @@ JoinedAt(nextId,
                  << [create_empty("Sun") EXCEPT !.type = "LIGHT",
                                                 !.loc2 = <<10000, 10000, 20000>>],
                     [create_empty("Camera") EXCEPT !.type = "CAMERA",
                                                    !.loc2 = <<20000, -20000, 16000>>] >>)
    /\ nextId' = nextId + 2
    /\ active' = nextId + 1
    /\ selected' = {nextId + 1}
    /\ scene' = [scene EXCEPT !.camera = nextId + 1]
    /\ pc' = "done"
    /\ UNCHANGED <<script, mats, root, failed, before, gaugeVars,
                   env, OUTPUT_DIR, result, log>>

NextRcs ==
    \/ RcsClear \/ RcsHierarchy \/ RcsVessel \/ RcsLoopComponents
    \/ RcsPressurizer \/ RcsPiping \/ RcsSurge \/ RcsArrows \/ RcsLabels
    \/ RcsSceneSetup

(***************************************************************************)
(* The gauge generators.  Gauge values are in thousandths of a scale unit, *)
(* fractions (normalized values, fill levels, scale factors) in            *)
(* thousandths, lengths in 1e-5 Blender units, angles in thousandths of a  *)
(* degree and, once converted, in 1e-5 radians.  Quotients are rounded     *)
(* down.  The pressure presets (0 to 2500) are beyond the range of this    *)
(* arithmetic and are left out.                                            *)
(***************************************************************************)
Max2(a, b) == IF a >= b THEN a ELSE b

\* the tolerance 0.001 of the tick loops
Tolerance == 1

\* an object made by bpy.data.objects.new: scale 1, mesh centred on the
\* origin (offset2 is the doubled offset of the mesh centre from the origin)
GaugeObj(name, type, parent, material, loc2, dim) ==
    Obj(name, type, parent, 0, material, loc2, dim) @@
    [scale |-> <<1000, 1000, 1000>>, offset2 |-> <<0, 0, 0>>, linked |-> TRUE]

\* str(int(value)) of a whole value
RECURSIVE IntStr(_)
IntStr(n) == IF n < 0 THEN "-" \o IntStr(-n)
             ELSE IF n < 10 THEN Digits[n + 1]
             ELSE IntStr(n \div 10) \o Digits[(n % 10) + 1]

(***************************************************************************)
(* BlenderTemperatureGauge_v1.py: configuration and presets.               *)
(***************************************************************************)
BarGaugeConfig ==
    [name |-> "Temperature", label |-> "TEMP", units |-> "F",
     height |-> 200000, width |-> 40000, depth |-> 15000,
     tube_width |-> 12000, tube_margin |-> 8000,
     style |-> "bar", bulb_radius |-> 10000, corner_radius |-> 2000,
     min_value |-> 100000, max_value |-> 700000,
     major_tick_interval |-> 100000, minor_tick_interval |-> 20000,
     zone_normal |-> <<100000, 550000>>, zone_warning |-> <<550000, 620000>>,
     zone_danger |-> <<620000, 700000>>, zone_width |-> 3000,
     initial_fill |-> 500]

create_temperature_bar_gauge ==
    [BarGaugeConfig EXCEPT !.style = "thermometer", !.initial_fill = 400]

create_level_bar_gauge ==
    [BarGaugeConfig EXCEPT
        !.name = "Level", !.label = "PZR LVL", !.units = "%",
        !.min_value = 0, !.max_value = 100000,
        !.major_tick_interval = 20000, !.minor_tick_interval = 5000,
        !.zone_danger = <<0, 15000>>, !.zone_warning = <<15000, 20000>>,
        !.zone_normal = <<20000, 70000>>, !.initial_fill = 500]

create_flow_bar_gauge ==
    [BarGaugeConfig EXCEPT
        !.name = "Flow", !.label = "FLOW", !.units = "K gpm",
        !.min_value = 0, !.max_value = 120000,
        !.major_tick_interval = 20000, !.minor_tick_interval = 5000,
        !.zone_danger = <<0, 60000>>, !.zone_warning = <<60000, 70000>>,
        !.zone_normal = <<70000, 120000>>, !.initial_fill = 750]

\* the configurations create_bar_gauge is run with
BarConfigs ==
    { BarGaugeConfig, create_temperature_bar_gauge, create_level_bar_gauge,
      create_flow_bar_gauge }

(***************************************************************************)
(* BlenderTemperatureGauge_v1.py: value conversion.                        *)
(***************************************************************************)
\* the clamp left out: the quotient as it is
value_to_normalized_Unclamped(value, config) ==
    ((value - config.min_value) * 1000) \div (config.max_value - config.min_value)

value_to_normalized(value, config) ==
    Max2(0, Min2(1000,
        ((value - config.min_value) * 1000) \div (config.max_value - config.min_value)))

value_to_y_position(value, config, tube_height) ==
    (value_to_normalized(value, config) * tube_height) \div 1000

(***************************************************************************)
(* BlenderTemperatureGauge_v1.py: geometry.                                *)
(***************************************************************************)
Bar_create_material(name) == create_material(name)

\* the ten materials, named after the gauge
create_bar_gauge_materials(config) ==
    { "MAT_BarGauge_" \o part \o "_" \o config.name :
        part \in {"Housing", "Background", "Tube", "Fill", "Bulb", "Tick", "Text",
                  "Zone_Normal", "Zone_Warning", "Zone_Danger"} }

BarMat(part, config) == "MAT_BarGauge_" \o part \o "_" \o config.name

\* create_box with center_bottom ignored: the mesh always centred on the origin
Bar_create_box_Centred(name, width, height, depth, center_bottom) ==
    GaugeObj(name, "MESH", NoParent, "", <<0, 0, 0>>, <<width, height, depth>>)

\* a box whose mesh is centred on the origin or, with center_bottom, stands
\* on it: y_offset = height / 2 puts the pivot at the bottom of the box
Bar_create_box(name, width, height, depth, center_bottom) ==
    [GaugeObj(name, "MESH", NoParent, "", <<0, 0, 0>>, <<width, height, depth>>)
        EXCEPT !.offset2 = <<0, IF center_bottom THEN height ELSE 0, 0>>]

create_rounded_box(name, width, height, depth, corner_radius) ==
    GaugeObj(name, "MESH", NoParent, "", <<0, 0, 0>>, <<width, height, depth>>)

create_sphere(name, radius) ==
    GaugeObj(name, "MESH", NoParent, "", <<0, 0, 0>>,
             <<2 * radius, 2 * radius, 2 * radius>>)

create_tube_outline(name, width, height, thickness, depth) ==
    GaugeObj(name, "MESH", NoParent, "", <<0, 0, 0>>, <<width, height, depth>>)

Bar_create_text_object(name, text, size) ==
    [GaugeObj(name, "FONT", NoParent, "", <<0, 0, 0>>, <<0, 0, 0>>)
        EXCEPT !.body = text]

\* an empty made by bpy.data.objects.new(name, None)
GaugeEmpty(name, parent) ==
    GaugeObj(name, "EMPTY", parent, "", <<0, 0, 0>>, <<0, 0, 0>>)

\* obj.parent, obj.location, the material appended
Placed(o, parent, loc2, material) ==
    [o EXCEPT !.parent = parent, !.loc2 = loc2, !.mat = material]

\* tube_height and tube_bottom_y of create_bar_gauge
tube_height(config) ==
    config.height - 2 * config.tube_margin
    - (IF config.style = "thermometer" THEN config.bulb_radius ELSE 0)

\* doubled, as every location of the model
tube_bottom_y2(config) ==
    -config.height + 2 * config.tube_margin
    + (IF config.style = "thermometer" THEN 2 * config.bulb_radius ELSE 0)

\* the body with a bulb whatever the style
BarBodyParts_AlwaysBulb(config, r) ==
    << Placed(IF config.corner_radius > 100
              THEN create_rounded_box("Housing", config.width, config.height,
                                      config.depth, config.corner_radius)
              ELSE Bar_create_box("Housing", config.width, config.height,
                                  config.depth, FALSE),
              r, <<0, 0, 0>>, BarMat("Housing", config)),
       Placed(Bar_create_box("Background", config.width - 4000,
                             config.height - 4000, Pct(config.depth, 30), FALSE),
              r, <<0, 0, 2 * Pct(config.depth, 35)>>, BarMat("Background", config)),
       Placed(create_tube_outline("Tube", config.tube_width + 2000,
                                  tube_height(config) + 2000, 1000,
                                  Pct(config.depth, 20)),
              r, <<0, tube_bottom_y2(config) + tube_height(config),
                   2 * Pct(config.depth, 50)>>,
              BarMat("Tube", config)),
       [Placed(Bar_create_box("Fill", config.tube_width, tube_height(config),
                              Pct(config.depth, 15), TRUE),
               r, <<0, tube_bottom_y2(config), 2 * Pct(config.depth, 50)>>,
               BarMat("Fill", config))
           EXCEPT !.scale = <<1000, config.initial_fill, 1000>>] >>
    \o (IF TRUE
        THEN << Placed(create_sphere("Bulb", config.bulb_radius), r,
                       <<0, -config.height + 2 * config.tube_margin
                            + 2 * Pct(config.bulb_radius, 30),
                         2 * Pct(config.depth, 50)>>,
                       BarMat("Bulb", config)) >>
        ELSE <<>>)

\* the housing, the background, the tube, the fill and, for a thermometer,
\* the bulb, all children of root r
BarBodyParts(config, r) ==
    << Placed(IF config.corner_radius > 100
              THEN create_rounded_box("Housing", config.width, config.height,
                                      config.depth, config.corner_radius)
              ELSE Bar_create_box("Housing", config.width, config.height,
                                  config.depth, FALSE),
              r, <<0, 0, 0>>, BarMat("Housing", config)),
       Placed(Bar_create_box("Background", config.width - 4000,
                             config.height - 4000, Pct(config.depth, 30), FALSE),
              r, <<0, 0, 2 * Pct(config.depth, 35)>>, BarMat("Background", config)),
       Placed(create_tube_outline("Tube", config.tube_width + 2000,
                                  tube_height(config) + 2000, 1000,
                                  Pct(config.depth, 20)),
              r, <<0, tube_bottom_y2(config) + tube_height(config),
                   2 * Pct(config.depth, 50)>>,
              BarMat("Tube", config)),
       [Placed(Bar_create_box("Fill", config.tube_width, tube_height(config),
                              Pct(config.depth, 15), TRUE),
               r, <<0, tube_bottom_y2(config), 2 * Pct(config.depth, 50)>>,
               BarMat("Fill", config))
           EXCEPT !.scale = <<1000, config.initial_fill, 1000>>] >>
    \o (IF config.style = "thermometer"
        THEN << Placed(create_sphere("Bulb", config.bulb_radius), r,
                       <<0, -config.height + 2 * config.tube_margin
                            + 2 * Pct(config.bulb_radius, 30),
                         2 * Pct(config.depth, 50)>>,
                       BarMat("Bulb", config)) >>
        ELSE <<>>)

\* tick_x, doubled
tick_x2(config) == config.width - config.tube_margin

\* the doubled y of a scale value
y_pos2(value, config) ==
    tube_bottom_y2(config) + 2 * value_to_y_position(value, config, tube_height(config))

BarMajorTickObj(value, tick_idx, config, parent) ==
    Placed(Bar_create_box("MajorTick_" \o IntStr(tick_idx), 6000, 1200,
                          Pct(config.depth, 10), FALSE),
           parent, <<tick_x2(config), y_pos2(value, config), 2 * Pct(config.depth, 55)>>,
           BarMat("Tick", config))

BarMinorTickObj(value, tick_idx, config, parent) ==
    Placed(Bar_create_box("MinorTick_" \o IntStr(tick_idx), 3000, 800,
                          Pct(config.depth, 8), FALSE),
           parent, <<tick_x2(config), y_pos2(value, config), 2 * Pct(config.depth, 55)>>,
           BarMat("Tick", config))

\* the number's text: str(int(value)) of a whole value, else f"{value:.0f}"
BarNumberText(value) ==
    IF value % 1000 = 0 THEN IntStr(value \div 1000)
    ELSE IntStr((value + 500) \div 1000)

BarNumberObj(value, num_idx, config, parent) ==
    Placed(Bar_create_text_object("Number_" \o IntStr(num_idx), BarNumberText(value), 5000),
           parent,
           <<tick_x2(config) + 6000 + 8000, y_pos2(value, config),
             2 * Pct(config.depth, 55)>>, "")

\* create_zone without the test that the zone's start is below its end
create_zone_Unguarded(zone_name, zone_range, material, config, parent) ==
    IF zone_range # <<>>
    THEN << Placed(Bar_create_box(zone_name, config.zone_width,
                       (y_pos2(zone_range[2], config) - y_pos2(zone_range[1], config)) \div 2,
                       Pct(config.depth, 10), FALSE),
                   parent,
                   <<-config.width + config.tube_margin + config.zone_width,
                     (y_pos2(zone_range[1], config) + y_pos2(zone_range[2], config)) \div 2,
                     2 * Pct(config.depth, 55)>>,
                   material) >>
    ELSE <<>>

\* create_zone: a bar from the zone's start to its end, if the zone is not empty
create_zone(zone_name, zone_range, material, config, parent) ==
    IF zone_range # <<>> /\ zone_range[1] < zone_range[2]
    THEN << Placed(Bar_create_box(zone_name, config.zone_width,
                       (y_pos2(zone_range[2], config) - y_pos2(zone_range[1], config)) \div 2,
                       Pct(config.depth, 10), FALSE),
                   parent,
                   <<-config.width + config.tube_margin + config.zone_width,
                     (y_pos2(zone_range[1], config) + y_pos2(zone_range[2], config)) \div 2,
                     2 * Pct(config.depth, 55)>>,
                   material) >>
    ELSE <<>>

BarZones(config, parent) ==
    create_zone("Zone_Normal", config.zone_normal, BarMat("Zone_Normal", config),
                config, parent)
    \o create_zone("Zone_Warning", config.zone_warning, BarMat("Zone_Warning", config),
                   config, parent)
    \o create_zone("Zone_Danger", config.zone_danger, BarMat("Zone_Danger", config),
                   config, parent)

BarTexts(config, r) ==
    << Placed(Bar_create_text_object("Label", config.label, 8000), r,
              <<0, config.height - 2 * Pct(config.tube_margin, 70),
                2 * Pct(config.depth, 55)>>, ""),
       Placed(Bar_create_text_object("Units", config.units, 6000), r,
              <<0, -config.height + 2 * Pct(config.tube_margin, 50),
                2 * Pct(config.depth, 55)>>, "") >>

(***************************************************************************)
(* BlenderTemperatureGauge_v1.py: main and create_bar_gauge, one action    *)
(* per section and per pass of a loop.  bpy.data.objects.new and link      *)
(* change neither the selection nor the active object.                     *)
(***************************************************************************)
\* the objects of seq enter the scene
Link(seq) ==
    /\ objs' = AddObjects(objs, nextId, seq)
    /\ nextId' = nextId + Len(seq)

\* the loop condition without the tolerance
InScale_NoTolerance(value, config) == value <= config.max_value

\* the loop condition "value <= config.max_value + 0.001"
InScale(value, config) == value <= config.max_value + Tolerance

\* "abs((value - config.min_value) % config.major_tick_interval) > 0.001"
OffMajor(value, config) ==
    (value - config.min_value) % config.major_tick_interval > Tolerance

\* main calls create_bar_gauge at once: the materials, then the root empty
BarStart ==
    /\ script = "bar" /\ pc = "start"
    /\ mats' = WithMaterials(mats, create_bar_gauge_materials(cfg))
    /\ Link(<< GaugeEmpty("BarGauge_" \o cfg.name, NoParent) >>)
    /\ root' = nextId
    /\ locals' = [fn |-> "create_bar_gauge", value |-> 0, tick_idx |-> 0,
                  scale_empty |-> 0, ticks_empty |-> 0]
    /\ pc' = "body"
    /\ UNCHANGED <<script, selected, active, failed, before, cfg, renderVars>>

\* housing to bulb, the Scale and MajorTicks empties, the loop variables
BarBody ==
    /\ script = "bar" /\ pc = "body"
    /\ \E parts \in {BarBodyParts(cfg, root)} :
          /\ Link(parts \o << GaugeEmpty("Scale", root),
                              GaugeEmpty("MajorTicks", nextId + Len(parts)) >>)
          /\ locals' = [locals EXCEPT !.scale_empty = nextId + Len(parts),
                                      !.ticks_empty = nextId + Len(parts) + 1,
                                      !.value = cfg.min_value, !.tick_idx = 0]
    /\ pc' = "major"
    /\ UNCHANGED <<script, selected, active, mats, root, failed, before, cfg, renderVars>>

BarMajorTick ==
    /\ script = "bar" /\ pc = "major" /\ InScale(locals.value, cfg)
    /\ cfg.max_value # cfg.min_value
    /\ Link(<< BarMajorTickObj(locals.value, locals.tick_idx, cfg, locals.ticks_empty) >>)
    /\ locals' = [locals EXCEPT !.value = @ + cfg.major_tick_interval,
                                !.tick_idx = @ + 1]
    /\ UNCHANGED <<script, pc, selected, active, mats, root, failed, before, cfg,
                   renderVars>>

\* the loop is left; the MinorTicks empty, the loop variables
BarMajorDone ==
    /\ script = "bar" /\ pc = "major" /\ ~InScale(locals.value, cfg)
    /\ Link(<< GaugeEmpty("MinorTicks", locals.scale_empty) >>)
    /\ locals' = [locals EXCEPT !.ticks_empty = nextId,
                                !.value = cfg.min_value, !.tick_idx = 0]
    /\ pc' = "minor"
    /\ UNCHANGED <<script, selected, active, mats, root, failed, before, cfg, renderVars>>

\* one pass of the minor loop: a tick unless the value is a major position
BarMinorTick ==
    /\ script = "bar" /\ pc = "minor" /\ InScale(locals.value, cfg)
    /\ IF OffMajor(locals.value, cfg)
       THEN /\ Link(<< BarMinorTickObj(locals.value, locals.tick_idx, cfg,
                                       locals.ticks_empty) >>)
            /\ locals' = [locals EXCEPT !.value = @ + cfg.minor_tick_interval,
                                        !.tick_idx = @ + 1]
       ELSE /\ locals' = [locals EXCEPT !.value = @ + cfg.minor_tick_interval]
            /\ UNCHANGED <<objs, nextId>>
    /\ UNCHANGED <<script, pc, selected, active, mats, root, failed, before, cfg,
                   renderVars>>

BarMinorDone ==
    /\ script = "bar" /\ pc = "minor" /\ ~InScale(locals.value, cfg)
    /\ Link(<< GaugeEmpty("Numbers", locals.scale_empty) >>)
    /\ locals' = [locals EXCEPT !.ticks_empty = nextId,
                                !.value = cfg.min_value, !.tick_idx = 0]
    /\ pc' = "numbers"
    /\ UNCHANGED <<script, selected, active, mats, root, failed, before, cfg, renderVars>>

BarNumber ==
    /\ script = "bar" /\ pc = "numbers" /\ InScale(locals.value, cfg)
    /\ Link(<< BarNumberObj(locals.value, locals.tick_idx, cfg, locals.ticks_empty) >>)
    /\ locals' = [locals EXCEPT !.value = @ + cfg.major_tick_interval,
                                !.tick_idx = @ + 1]
    /\ UNCHANGED <<script, pc, selected, active, mats, root, failed, before, cfg,
                   renderVars>>

\* the loop is left; the Zones empty under the root, the zones, label and units
BarFinish ==
    /\ script = "bar" /\ pc = "numbers" /\ ~InScale(locals.value, cfg)
    /\ Link(<< GaugeEmpty("Zones", root) >> \o BarZones(cfg, nextId) \o BarTexts(cfg, root))
    /\ locals' = [locals EXCEPT !.fn = "main"]
    /\ pc' = "select"
    /\ UNCHANGED <<script, selected, active, mats, root, failed, before, cfg, renderVars>>

\* main: the gauge is made active and added to the selection
BarSelect ==
    /\ script = "bar" /\ pc = "select"
    /\ active' = root
    /\ selected' = selected \cup {root}
    /\ pc' = "done"
    /\ UNCHANGED <<script, objs, nextId, mats, root, failed, before, gaugeVars,
                   renderVars>>

NextBar ==
    \/ BarStart \/ BarBody \/ BarMajorTick \/ BarMajorDone \/ BarMinorTick
    \/ BarMinorDone \/ BarNumber \/ BarFinish \/ BarSelect

(***************************************************************************)
(* BlenderArcGauge_v1.py: configuration and presets.                       *)
(***************************************************************************)
GaugeConfig ==
    [name |-> "Temperature", label |-> "T-HOT", units |-> "F",
     radius |-> 100000, depth |-> 8000, bezel_width |-> 8000,
     min_value |-> 100000, max_value |-> 700000,
     major_tick_interval |-> 100000, minor_tick_interval |-> 20000,
     sweep_angle |-> 270000, start_angle |-> 225000,
     needle_length |-> 75, needle_width |-> 3000,
     zone_normal |-> <<100000, 550000>>, zone_warning |-> <<550000, 620000>>,
     zone_danger |-> <<620000, 700000>>, zone_width |-> 6000]

create_flow_gauge ==
    [GaugeConfig EXCEPT
        !.name = "Flow", !.label = "FLOW", !.units = "K gpm",
        !.min_value = 0, !.max_value = 120000,
        !.major_tick_interval = 20000, !.minor_tick_interval = 5000,
        !.zone_danger = <<0, 60000>>, !.zone_warning = <<60000, 70000>>,
        !.zone_normal = <<70000, 120000>>]

create_power_gauge ==
    [GaugeConfig EXCEPT
        !.name = "Power", !.label = "CORE PWR", !.units = "MW",
        !.min_value = 0, !.max_value = 50000,
        !.major_tick_interval = 10000, !.minor_tick_interval = 2000,
        !.zone_normal = <<0, 30000>>, !.zone_warning = <<30000, 40000>>,
        !.zone_danger = <<40000, 50000>>]

\* the configurations create_gauge is run with (create_temperature_gauge
\* sets the values of the default configuration)
ArcConfigs == { GaugeConfig, create_flow_gauge, create_power_gauge }

(***************************************************************************)
(* BlenderArcGauge_v1.py: value conversion and geometry.                   *)
(***************************************************************************)
\* math.radians of an angle in thousandths of a degree, in 1e-5 radians
\* (pi/180 * 100 ~ 1775/1017)
Radians(md) == (md * 1775) \div 1017

value_to_angle(value, config) ==
    Radians(config.start_angle
            - (Max2(0, Min2(1000,
                  ((value - config.min_value) * 1000)
                      \div (config.max_value - config.min_value)))
               * config.sweep_angle) \div 1000)

create_gauge_materials(config) ==
    { "MAT_Gauge_" \o part \o "_" \o config.name :
        part \in {"Bezel", "Face", "Tick", "Needle", "Hub", "Text",
                  "Zone_Normal", "Zone_Warning", "Zone_Danger"} }

ArcMat(part, config) == "MAT_Gauge_" \o part \o "_" \o config.name

\* a ring segment between two radii and two angles (1e-5 radians)
create_arc_mesh(name, inner_radius, outer_radius, start_angle, end_angle, depth) ==
    GaugeObj(name, "MESH", NoParent, "", <<0, 0, 0>>,
             <<2 * outer_radius, 2 * outer_radius, depth>>) @@
    [inner |-> inner_radius, outer |-> outer_radius,
     start_angle |-> start_angle, end_angle |-> end_angle]

create_disk(name, radius, depth) ==
    GaugeObj(name, "MESH", NoParent, "", <<0, 0, 0>>, <<2 * radius, 2 * radius, depth>>)

\* a bar along the direction angle, from the inner to the outer radius
create_tick_mark(name, inner_radius, outer_radius, angle, width, depth) ==
    GaugeObj(name, "MESH", NoParent, "", <<0, 0, 0>>,
             <<outer_radius - inner_radius, width, depth>>) @@
    [inner |-> inner_radius, outer |-> outer_radius, angle |-> angle]

\* the needle points up (+Y); rotation_z is its rotation_euler.z
create_needle(name, length, width, depth) ==
    GaugeObj(name, "MESH", NoParent, "", <<0, 0, 0>>, <<width, length + 5000, depth>>) @@
    [length |-> length, rotation_z |-> 0]

\* a text placed at a radius and an angle: location (r cos a, r sin a)
create_text_object(name, text, size) ==
    [GaugeObj(name, "FONT", NoParent, "", <<0, 0, 0>>, <<0, 0, 0>>)
        EXCEPT !.body = text] @@
    [radius |-> 0, angle |-> 0]

\* 2 * (config.depth * 0.5 + lift)
ArcZ2(config, lift) == 2 * (Pct(config.depth, 50) + lift)

\* the body with the MajorTicks empty parented to the root instead of Scale
ArcBodyParts_TicksUnderRoot(config, r, first) ==
    << Placed(create_arc_mesh("Bezel", config.radius - config.bezel_width,
                              config.radius, 0, Radians(360000), config.depth),
              r, <<0, 0, 0>>, ArcMat("Bezel", config)),
       Placed(create_disk("Face", config.radius - config.bezel_width - 500,
                          Pct(config.depth, 50)),
              r, <<0, 0, 2 * Pct(config.depth, 25)>>, ArcMat("Face", config)),
       GaugeEmpty("Scale", r),
       GaugeEmpty("MajorTicks", r) >>

\* the bezel, the face, the Scale and MajorTicks empties
ArcBodyParts(config, r, first) ==
    << Placed(create_arc_mesh("Bezel", config.radius - config.bezel_width,
                              config.radius, 0, Radians(360000), config.depth),
              r, <<0, 0, 0>>, ArcMat("Bezel", config)),
       Placed(create_disk("Face", config.radius - config.bezel_width - 500,
                          Pct(config.depth, 50)),
              r, <<0, 0, 2 * Pct(config.depth, 25)>>, ArcMat("Face", config)),
       GaugeEmpty("Scale", r),
       GaugeEmpty("MajorTicks", first + 2) >>

ArcMajorTickObj(value, tick_index, config, parent) ==
    Placed(create_tick_mark("MajorTick_" \o IntStr(tick_index),
                            config.radius - config.bezel_width - 12000,
                            config.radius - config.bezel_width - 2000,
                            value_to_angle(value, config), 1500, 800),
           parent, <<0, 0, ArcZ2(config, 200)>>, ArcMat("Tick", config))

ArcMinorTickObj(value, tick_index, config, parent) ==
    Placed(create_tick_mark("MinorTick_" \o IntStr(tick_index),
                            config.radius - config.bezel_width - 8000,
                            config.radius - config.bezel_width - 2000,
                            value_to_angle(value, config), 800, 600),
           parent, <<0, 0, ArcZ2(config, 200)>>, ArcMat("Tick", config))

\* the number's text: str(int(value)) of a whole value, else f"{value:.1f}"
ArcNumberText(value) ==
    IF value % 1000 = 0 THEN IntStr(value \div 1000)
    ELSE IntStr((value + 50) \div 1000) \o "." \o Digits[(((value + 50) \div 100) % 10) + 1]

ArcNumberObj(value, num_index, config, parent) ==
    [Placed(create_text_object("Number_" \o IntStr(num_index), ArcNumberText(value), 6000),
            parent, <<0, 0, ArcZ2(config, 300)>>, "")
        EXCEPT !.radius = config.radius - config.bezel_width - 20000,
               !.angle = value_to_angle(value, config)]

\* a zone band from the angle of the zone's end to the angle of its start,
\* if the zone is not empty
ArcZone(zone_name, zone_range, material, config, parent) ==
    IF zone_range # <<>> /\ zone_range[1] < zone_range[2]
    THEN << Placed(create_arc_mesh(zone_name,
                       config.radius - config.bezel_width - config.zone_width - 2000,
                       config.radius - config.bezel_width - 2000,
                       value_to_angle(zone_range[2], config),
                       value_to_angle(zone_range[1], config), 400),
                   parent, <<0, 0, ArcZ2(config, 100)>>, material) >>
    ELSE <<>>

ArcZones(config, parent) ==
    ArcZone("Zone_Normal", config.zone_normal, ArcMat("Zone_Normal", config),
            config, parent)
    \o ArcZone("Zone_Warning", config.zone_warning, ArcMat("Zone_Warning", config),
               config, parent)
    \o ArcZone("Zone_Danger", config.zone_danger, ArcMat("Zone_Danger", config),
               config, parent)

\* the needle at mid-range, the hub, the label and the units
ArcNeedleAndTexts(config, r) ==
    << [Placed(create_needle("Needle", Pct(config.radius, config.needle_length),
                             config.needle_width, 1500),
               r, <<0, 0, ArcZ2(config, 1000)>>, ArcMat("Needle", config))
           EXCEPT !.rotation_z =
               value_to_angle((config.min_value + config.max_value) \div 2, config)
               - Radians(90000)],
       Placed(create_disk("NeedleHub", 2 * config.needle_width, 2000),
              r, <<0, 0, ArcZ2(config, 1500)>>, ArcMat("Hub", config)),
       Placed(create_text_object("Label", config.label, 12000),
              r, <<0, -2 * Pct(config.radius, 35), ArcZ2(config, 500)>>, ""),
       Placed(create_text_object("Units", config.units, 8000),
              r, <<0, -2 * Pct(config.radius, 55), ArcZ2(config, 500)>>, "") >>

(***************************************************************************)
(* BlenderArcGauge_v1.py: main and create_gauge.  The clearing of the      *)
(* scene at the head of main is commented out in the source.               *)
(***************************************************************************)
ArcStart ==
    /\ script = "arc" /\ pc = "start"
    /\ mats' = WithMaterials(mats, create_gauge_materials(cfg))
    /\ Link(<< GaugeEmpty("Gauge_" \o cfg.name, NoParent) >>)
    /\ root' = nextId
    /\ locals' = [fn |-> "create_gauge", value |-> 0, tick_idx |-> 0,
                  scale_empty |-> 0, ticks_empty |-> 0]
    /\ pc' = "body"
    /\ UNCHANGED <<script, selected, active, failed, before, cfg, renderVars>>

ArcBody ==
    /\ script = "arc" /\ pc = "body"
    /\ Link(ArcBodyParts(cfg, root, nextId))
    /\ locals' = [locals EXCEPT !.scale_empty = nextId + 2,
                                !.ticks_empty = nextId + 3,
                                !.value = cfg.min_value, !.tick_idx = 0]
    /\ pc' = "major"
    /\ UNCHANGED <<script, selected, active, mats, root, failed, before, cfg, renderVars>>

ArcMajorTick ==
    /\ script = "arc" /\ pc = "major" /\ InScale(locals.value, cfg)
    /\ cfg.max_value # cfg.min_value
    /\ Link(<< ArcMajorTickObj(locals.value, locals.tick_idx, cfg, locals.ticks_empty) >>)
    /\ locals' = [locals EXCEPT !.value = @ + cfg.major_tick_interval,
                                !.tick_idx = @ + 1]
    /\ UNCHANGED <<script, pc, selected, active, mats, root, failed, before, cfg,
                   renderVars>>

ArcMajorDone ==
    /\ script = "arc" /\ pc = "major" /\ ~InScale(locals.value, cfg)
    /\ Link(<< GaugeEmpty("MinorTicks", locals.scale_empty) >>)
    /\ locals' = [locals EXCEPT !.ticks_empty = nextId,
                                !.value = cfg.min_value, !.tick_idx = 0]
    /\ pc' = "minor"
    /\ UNCHANGED <<script, selected, active, mats, root, failed, before, cfg, renderVars>>

ArcMinorTick ==
    /\ script = "arc" /\ pc = "minor" /\ InScale(locals.value, cfg)
    /\ IF OffMajor(locals.value, cfg)
       THEN /\ Link(<< ArcMinorTickObj(locals.value, locals.tick_idx, cfg,
                                       locals.ticks_empty) >>)
            /\ locals' = [locals EXCEPT !.value = @ + cfg.minor_tick_interval,
                                        !.tick_idx = @ + 1]
       ELSE /\ locals' = [locals EXCEPT !.value = @ + cfg.minor_tick_interval]
            /\ UNCHANGED <<objs, nextId>>
    /\ UNCHANGED <<script, pc, selected, active, mats, root, failed, before, cfg,
                   renderVars>>

ArcMinorDone ==
    /\ script = "arc" /\ pc = "minor" /\ ~InScale(locals.value, cfg)
    /\ Link(<< GaugeEmpty("Numbers", locals.scale_empty) >>)
    /\ locals' = [locals EXCEPT !.ticks_empty = nextId,
                                !.value = cfg.min_value, !.tick_idx = 0]
    /\ pc' = "numbers"
    /\ UNCHANGED <<script, selected, active, mats, root, failed, before, cfg, renderVars>>

ArcNumber ==
    /\ script = "arc" /\ pc = "numbers" /\ InScale(locals.value, cfg)
    /\ Link(<< ArcNumberObj(locals.value, locals.tick_idx, cfg, locals.ticks_empty) >>)
    /\ locals' = [locals EXCEPT !.value = @ + cfg.major_tick_interval,
                                !.tick_idx = @ + 1]
    /\ UNCHANGED <<script, pc, selected, active, mats, root, failed, before, cfg,
                   renderVars>>

\* the loop is left; the Zones empty under Scale, the zones, the needle, the
\* hub, the label and the units
ArcFinish ==
    /\ script = "arc" /\ pc = "numbers" /\ ~InScale(locals.value, cfg)
    /\ Link(<< GaugeEmpty("Zones", locals.scale_empty) >> \o ArcZones(cfg, nextId)
            \o ArcNeedleAndTexts(cfg, root))
    /\ locals' = [locals EXCEPT !.fn = "main"]
    /\ pc' = "select"
    /\ UNCHANGED <<script, selected, active, mats, root, failed, before, cfg, renderVars>>

\* main: the gauge is made active and added to the selection
ArcSelect ==
    /\ script = "arc" /\ pc = "select"
    /\ active' = root
    /\ selected' = selected \cup {root}
    /\ pc' = "done"
    /\ UNCHANGED <<script, objs, nextId, mats, root, failed, before, gaugeVars,
                   renderVars>>

NextArc ==
    \/ ArcStart \/ ArcBody \/ ArcMajorTick \/ ArcMajorDone \/ ArcMinorTick
    \/ ArcMinorDone \/ ArcNumber \/ ArcFinish \/ ArcSelect

(***************************************************************************)
(* Calls of the pure functions: the arguments are in locals.args, the      *)
(* configuration in cfg; the call leaves the returned value in locals.ret. *)
(***************************************************************************)
Returned(v) ==
    /\ locals' = [locals EXCEPT !.ret = <<v>>]
    /\ pc' = "done"
    /\ UNCHANGED <<script, objs, nextId, selected, active, mats, root, failed,
                   before, cfg, renderVars>>

CallAnchorToPanel ==
    /\ script = "call" /\ pc = "start" /\ locals.fn = "anchor_to_panel"
    /\ Returned(anchor_to_panel(locals.args[1], locals.args[2],
                                locals.args[3], locals.args[4]))

CallValueToNormalized ==
    /\ script = "call" /\ pc = "start" /\ locals.fn = "value_to_normalized"
    /\ Returned(value_to_normalized(locals.args[1], cfg))

CallValueToYPosition ==
    /\ script = "call" /\ pc = "start" /\ locals.fn = "value_to_y_position"
    /\ Returned(value_to_y_position(locals.args[1], cfg, locals.args[2]))

CallValueToAngle ==
    /\ script = "call" /\ pc = "start" /\ locals.fn = "value_to_angle"
    /\ Returned(value_to_angle(locals.args[1], cfg))

NextCalls ==
    \/ CallAnchorToPanel \/ CallValueToNormalized \/ CallValueToYPosition
    \/ CallValueToAngle

(***************************************************************************)
(* render_panel_textures.py: paths and find_output_dir.                    *)
(***************************************************************************)
\* os.path.dirname: the path without its last component
Dirname(path) == IF Len(path) <= 1 THEN path ELSE SubSeq(path, 1, Len(path) - 1)

\* os.path.join(a, b): b appended to a
JoinPath(a, b) == a \o b

\* the two fixed Windows locations and the two below the home directory
FixedCandidates(home) ==
    << <<"C:", "Users", "craig", "Projects", "Critical", "Assets", "Resources",
         "ReactorOperatorPanel">>,
       <<"C:", "Users", "craig", "Projects", "Critical", "Assets", "Textures",
         "ReactorOperatorPanel">>,
       JoinPath(home, <<"Projects", "Critical", "Assets", "Resources",
                        "ReactorOperatorPanel">>),
       JoinPath(home, <<"Projects", "Critical", "Assets", "Textures",
                        "ReactorOperatorPanel">>) >>

\* the candidates in the order they are tried: the location relative to the
\* .blend file comes first when the file has been saved
Candidates(e) ==
    IF e.blend_path # NoPath
    THEN << JoinPath(Dirname(Dirname(Dirname(e.blend_path))),
                     <<"Textures", "ReactorOperatorPanel">>) >>
         \o FixedCandidates(e.home)
    ELSE FixedCandidates(e.home)

\* the loop over the candidates from position k on: [found, dir, dirs]
RECURSIVE TryCandidates(_, _, _)
TryCandidates(cands, k, e) ==
    IF k > Len(cands) THEN [found |-> FALSE, dir |-> NoPath, dirs |-> e.dirs]
    ELSE IF cands[k] \in e.dirs
         THEN [found |-> TRUE, dir |-> cands[k], dirs |-> e.dirs]
    ELSE IF Dirname(cands[k]) \in e.dirs /\ ~e.makedirs_raises
         THEN [found |-> TRUE, dir |-> cands[k], dirs |-> e.dirs \cup {cands[k]}]
    ELSE TryCandidates(cands, k + 1, e)

\* find_output_dir without its last resort: an unsaved file with no
\* candidate directory leaves OUTPUT_DIR as it was and returns False
find_output_dir_NoLastResort(e) ==
    LET t == TryCandidates(Candidates(e), 1, e)
    IN  IF t.found THEN [ok |-> TRUE, dir |-> t.dir, dirs |-> t.dirs]
        ELSE IF e.blend_path # NoPath
             THEN [ok |-> TRUE, dir |-> Dirname(e.blend_path), dirs |-> e.dirs]
        ELSE [ok |-> FALSE, dir |-> NoPath, dirs |-> e.dirs]

\* find_output_dir: [ok |-> the value returned, dir |-> OUTPUT_DIR, dirs]
find_output_dir(e) ==
    LET t == TryCandidates(Candidates(e), 1, e)
    IN  IF t.found THEN [ok |-> TRUE, dir |-> t.dir, dirs |-> t.dirs]
        ELSE IF e.blend_path # NoPath
             THEN [ok |-> TRUE, dir |-> Dirname(e.blend_path), dirs |-> e.dirs]
        ELSE [ok |-> TRUE, dir |-> JoinPath(e.home, <<"Desktop">>), dirs |-> e.dirs]

(***************************************************************************)
(* render_panel_textures.py: the set-up functions.                         *)
(***************************************************************************)
\* bpy.data.objects.get(name): an object of that name, 0 for None
get_object(os, name) ==
    IF \E i \in DOMAIN os : os[i].name = name
    THEN CHOOSE i \in DOMAIN os : os[i].name = name
    ELSE 0

Cameras(os) == {i \in DOMAIN os : os[i].type = "CAMERA"}

\* the order in which the GPU compute types are tried
ComputeTypes == <<"OPTIX", "CUDA", "HIP", "METAL">>

\* the first compute type that can be enabled, "NONE" when every one raises
FirstComputeType(ok) ==
    IF \A k \in DOMAIN ComputeTypes : ComputeTypes[k] \notin ok THEN "NONE"
    ELSE ComputeTypes[CHOOSE k \in DOMAIN ComputeTypes :
                        /\ ComputeTypes[k] \in ok
                        /\ \A j \in 1 .. (k - 1) : ComputeTypes[j] \notin ok]

\* the device after the GPU set-up: CPU only when reading the preferences of
\* the Cycles add-on raises
CyclesDevice(e) == IF e.cycles_addon THEN "GPU" ELSE "CPU"

setup_render_settings(sc, e) ==
    [sc EXCEPT !.engine = "CYCLES",
               !.device = CyclesDevice(e),
               !.samples = 128,
               !.resolution = <<3840, 2160>>,
               !.file_format = "PNG",
               !.color_mode = "RGBA",
               !.film_transparent = TRUE]

\* the recess material can be rewired: it exists, uses nodes and has both
\* the Principled BSDF and the Material Output node
CanRewire(ms) ==
    /\ "Recess_Display" \in DOMAIN ms
    /\ ms["Recess_Display"].use_nodes
    /\ {"Principled BSDF", "Material Output"} \subseteq ms["Recess_Display"].nodes

\* the material mixed with a Transparent BSDF in front of the output
Rewired(m) ==
    [m EXCEPT
       !.nodes = @ \cup {"Transparent BSDF", "Mix Shader"},
       !.links = {l \in @ : l[2] # "Material Output"}
                 \cup {<<"Principled BSDF", "Mix Shader">>,
                       <<"Transparent BSDF", "Mix Shader">>,
                       <<"Mix Shader", "Material Output">>},
       !.blend = "BLEND"]

make_recess_materials_transparent(ms) ==
    IF CanRewire(ms)
    THEN [ms EXCEPT !["Recess_Display"] = Rewired(@)]
    ELSE ms

\* the render output path
OutputPath_Unjoined(dir) == dir
OutputPath(dir) == JoinPath(dir, <<"panel_base_color.png">>)

(***************************************************************************)
(* render_panel_textures.py: render_panel, one action per step.            *)
(***************************************************************************)
AfterRootCheck_NoReturn(panel_root) == "find_output_dir"
\* if not panel_root: return False
AfterRootCheck(panel_root) == IF panel_root = 0 THEN "done" ELSE "find_output_dir"

RenderCheckRoot ==
    /\ script = "render" /\ pc = "start"
    /\ \E panel_root \in {get_object(objs, "ReactorOperatorPanel")} :
          /\ pc' = AfterRootCheck(panel_root)
          /\ result' = IF AfterRootCheck(panel_root) = "done" THEN "False" ELSE result
          /\ locals' = [fn |-> "render_panel", panel_root |-> panel_root]
    /\ UNCHANGED <<script, objs, nextId, selected, active, mats, root, failed,
                   before, cfg, scene, env, OUTPUT_DIR, log>>

RenderFindOutputDir ==
    /\ script = "render" /\ pc = "find_output_dir"
    /\ \E f \in {find_output_dir(env)} :
          /\ OUTPUT_DIR' = f.dir
          /\ env' = [env EXCEPT !.dirs = f.dirs]
          /\ pc' = IF f.ok THEN "setup_camera" ELSE "done"
          /\ result' = IF f.ok THEN result ELSE "False"
    /\ log' = Append(log, "output_dir")
    /\ UNCHANGED <<script, objs, nextId, selected, active, mats, root, failed,
                   before, cfg, locals, scene>>

\* setup_camera: every camera is removed, then "RenderCamera" is added above
\* the centre of the panel and made the scene camera
RenderSetupCamera ==
    /\ script = "render" /\ pc = "setup_camera"
    /\ objs' = AddObjects(delete_objects(objs, Cameras(objs)), nextId,
                  << Obj("RenderCamera", "CAMERA", NoParent, 0, "",
                         <<PANEL_WIDTH, PANEL_HEIGHT, 1600000>>, <<0, 0, 0>>) >>)
    /\ nextId' = nextId + 1
    /\ active' = nextId
    /\ selected' = {nextId}
    /\ scene' = [scene EXCEPT !.camera = nextId]
    /\ log' = Append(log, "camera")
    /\ pc' = "setup_render_settings"
    /\ UNCHANGED <<script, mats, root, failed, before, cfg, locals, env,
                   OUTPUT_DIR, result>>

RenderSetupSettings ==
    /\ script = "render" /\ pc = "setup_render_settings"
    /\ scene' = setup_render_settings(scene, env)
    /\ env' = IF env.cycles_addon
              THEN [env EXCEPT !.compute_device_type =
                                   IF FirstComputeType(env.compute_ok) = "NONE" THEN @
                                   ELSE FirstComputeType(env.compute_ok)]
              ELSE env
    /\ log' = Append(log, "settings")
    /\ pc' = "make_transparent"
    /\ UNCHANGED <<script, objs, nextId, selected, active, mats, root, failed,
                   before, cfg, locals, OUTPUT_DIR, result>>

RenderMakeTransparent ==
    /\ script = "render" /\ pc = "make_transparent"
    /\ mats' = make_recess_materials_transparent(mats)
    /\ log' = IF CanRewire(mats) THEN Append(log, "transparent") ELSE log
    /\ pc' = "filepath"
    /\ UNCHANGED <<script, objs, nextId, selected, active, root, failed,
                   before, cfg, locals, scene, env, OUTPUT_DIR, result>>

RenderSetFilepath ==
    /\ script = "render" /\ pc = "filepath"
    /\ scene' = [scene EXCEPT !.filepath = OutputPath(OUTPUT_DIR)]
    /\ log' = Append(log, "filepath")
    /\ pc' = "render"
    /\ UNCHANGED <<script, objs, nextId, selected, active, mats, root, failed,
                   before, cfg, locals, env, OUTPUT_DIR, result>>

\* bpy.ops.render.render(write_still=True), then: return True
RenderRender ==
    /\ script = "render" /\ pc = "render"
    /\ env' = [env EXCEPT !.files = @ \cup {scene.filepath}]
    /\ log' = Append(log, "render")
    /\ result' = "True"
    /\ pc' = "done"
    /\ UNCHANGED <<script, objs, nextId, selected, active, mats, root, failed,
                   before, cfg, locals, scene, OUTPUT_DIR>>

NextRender ==
    \/ RenderCheckRoot \/ RenderFindOutputDir \/ RenderSetupCamera
    \/ RenderSetupSettings \/ RenderMakeTransparent \/ RenderSetFilepath
    \/ RenderRender

(***************************************************************************)
(* The scene a script is started in.                                       *)
(***************************************************************************)
\* the snapshot a run keeps of what it started from
Snapshot == [objs |-> objs, mats |-> mats, scene |-> scene, env |-> env]

InitScene ==
    /\ pc = "start"
    /\ objs \in PreScenes
    /\ nextId = MaxPre + 1
    /\ selected \in SUBSET select_all(objs)
    /\ active = 0
    /\ mats = <<>>
    /\ root = 0
    /\ failed = {}
    /\ locals = NoLocals
    /\ scene = DefaultScene
    /\ env = NoEnv
    /\ OUTPUT_DIR = NoPath
    /\ result = None
    /\ log = <<>>
    /\ before = Snapshot

InitPanel == script = "panel" /\ cfg = NoConfig /\ InitScene

SpecPanel == InitPanel /\ [][NextPanel]_vars

InitRcs == script = "rcs" /\ cfg = NoConfig /\ InitScene

SpecRcs == InitRcs /\ [][NextRcs]_vars

InitBar == script = "bar" /\ cfg \in BarConfigs /\ InitScene

SpecBar == InitBar /\ [][NextBar]_vars

InitArc == script = "arc" /\ cfg \in ArcConfigs /\ InitScene

SpecArc == InitArc /\ [][NextArc]_vars

(***************************************************************************)
(* The gauge generators on scales beyond the presets: an empty range       *)
(* (min_value = max_value), a range whose last major step ends within the  *)
(* loops' tolerance of 0.001 above max_value (its zones left as the class  *)
(* defines them, outside the range), and zones that are not sub-ranges.    *)
(***************************************************************************)
\* the first pass of the major tick loop of a scale with
\* max_value = min_value: value_to_angle (value_to_normalized for the bar
\* gauge) divides by max_value - min_value, the ZeroDivisionError leaves
\* create_gauge and main, and the script ends with what it has created
ArcZeroDivision ==
    /\ script = "arc" /\ pc = "major" /\ InScale(locals.value, cfg)
    /\ cfg.max_value = cfg.min_value
    /\ pc' = "raised"
    /\ UNCHANGED <<script, objs, nextId, selected, active, mats, root, failed,
                   before, gaugeVars, renderVars>>

BarZeroDivision ==
    /\ script = "bar" /\ pc = "major" /\ InScale(locals.value, cfg)
    /\ cfg.max_value = cfg.min_value
    /\ pc' = "raised"
    /\ UNCHANGED <<script, objs, nextId, selected, active, mats, root, failed,
                   before, gaugeVars, renderVars>>

\* a scale from 0 to 99.999 in steps of 50 and 10, and an empty scale
ShortOfMajor(config) ==
    [config EXCEPT !.min_value = 0, !.max_value = 99999,
                   !.major_tick_interval = 50000, !.minor_tick_interval = 10000]
EmptyRange(config) == [config EXCEPT !.max_value = config.min_value]

\* a danger zone that reaches beyond max_value, a warning zone given end
\* first, no normal zone
OddZones(config) ==
    [config EXCEPT !.zone_danger = <<config.max_value - 80000, config.max_value + 200000>>,
                   !.zone_warning = <<config.max_value - 80000, config.max_value - 150000>>,
                   !.zone_normal = <<>>]

ArcScaleConfigs ==
    ArcConfigs \cup {ShortOfMajor(GaugeConfig), EmptyRange(GaugeConfig),
                     EmptyRange(create_flow_gauge), OddZones(GaugeConfig)}
BarScaleConfigs ==
    BarConfigs \cup {ShortOfMajor(BarGaugeConfig), EmptyRange(BarGaugeConfig),
                     EmptyRange(create_level_bar_gauge), OddZones(BarGaugeConfig)}

InitGauges ==
    /\ \/ script = "arc" /\ cfg \in ArcScaleConfigs
       \/ script = "bar" /\ cfg \in BarScaleConfigs
    /\ InitScene

NextGauges == NextArc \/ NextBar \/ ArcZeroDivision \/ BarZeroDivision

\* the interpreter runs the script on until it ends or raises
SpecGauges == InitGauges /\ [][NextGauges]_vars /\ WF_vars(NextGauges)

\* any of the four builder scripts is run
Init == InitPanel \/ InitRcs \/ InitArc \/ InitBar

Next == NextPanel \/ NextRcs \/ NextArc \/ NextBar

Spec == Init /\ [][Next]_vars

(***************************************************************************)
(* The arguments the pure functions are called with.                       *)
(***************************************************************************)
\* anchor coordinates in hundredths, inside and outside the unit square
AnchorValues == {-50, 0, 7, 50, 93, 100, 150}

\* bar configurations: those of the script, a scale across zero, a scale of
\* one thousandth
BarCallConfigs ==
    BarConfigs \cup
    { [BarGaugeConfig EXCEPT !.min_value = -50000, !.max_value = 50000,
                             !.major_tick_interval = 25000,
                             !.minor_tick_interval = 5000],
      [BarGaugeConfig EXCEPT !.min_value = 0, !.max_value = 1,
                             !.major_tick_interval = 1,
                             !.minor_tick_interval = 1] }

\* arc configurations: those of the script, a full circle from the top, a
\* sweep in the other direction
ArcCallConfigs ==
    ArcConfigs \cup
    { [GaugeConfig EXCEPT !.min_value = -50000, !.max_value = 50000,
                          !.sweep_angle = 360000, !.start_angle = 90000],
      [GaugeConfig EXCEPT !.sweep_angle = -180000, !.start_angle = 0] }

\* scale values below, at, inside, and above the ends of the scale
TestValues(config) ==
    { config.min_value - config.major_tick_interval, config.min_value - 1,
      config.min_value, config.min_value + 1,
      config.min_value + config.minor_tick_interval,
      (config.min_value + config.max_value) \div 2,
      config.max_value - config.minor_tick_interval,
      config.max_value - 1, config.max_value, config.max_value + 1,
      config.max_value + config.major_tick_interval }

TubeHeights == {184000, 174000, 0}

InitCalls ==
    /\ script = "call"
    /\ pc = "start"
    /\ objs = <<>>
    /\ nextId = 1
    /\ selected = {}
    /\ active = 0
    /\ mats = <<>>
    /\ root = 0
    /\ failed = {}
    /\ scene = DefaultScene
    /\ env = NoEnv
    /\ OUTPUT_DIR = NoPath
    /\ result = None
    /\ log = <<>>
    /\ before = Snapshot
    /\ \/ /\ cfg = NoConfig
          /\ \E ax \in AnchorValues, ay \in AnchorValues,
                aw \in AnchorValues, ah \in AnchorValues :
                locals = [fn |-> "anchor_to_panel", args |-> <<ax, ay, aw, ah>>,
                          ret |-> <<>>]
       \/ /\ cfg \in BarCallConfigs
          /\ \E v \in TestValues(cfg) :
                \/ locals = [fn |-> "value_to_normalized", args |-> <<v>>, ret |-> <<>>]
                \/ \E h \in TubeHeights :
                      locals = [fn |-> "value_to_y_position", args |-> <<v, h>>,
                                ret |-> <<>>]
       \/ /\ cfg \in ArcCallConfigs
          /\ \E v \in TestValues(cfg) :
                locals = [fn |-> "value_to_angle", args |-> <<v>>, ret |-> <<>>]

SpecCalls == InitCalls /\ [][NextCalls]_vars

(***************************************************************************)
(* The .blend file and the host render_panel is started in.                *)
(***************************************************************************)
\* what build_panel leaves in the file, reduced to the root, the panel body
\* and one display recess
PanelStub(r) ==
    << Obj("ReactorOperatorPanel", "EMPTY", NoParent, 0, "", <<0, 0, 0>>, <<0, 0, 0>>) >>
    \o MainPanelBody(r)
    \o << create_recessed_area("DetailDisplay", 1542000, 286800, 372000, 754200,
                               "Recess_Display", r) >>

\* the materials of the file: none, the recess material as build_panel made
\* it, the same without nodes, or with its shader node replaced
RenderMaterials ==
    { <<>>,
      [n \in {"Recess_Display"} |-> create_material(n)],
      [n \in {"Recess_Display"} |-> [create_material(n) EXCEPT !.use_nodes = FALSE]],
      [n \in {"Recess_Display"} |->
          [create_material(n) EXCEPT !.nodes = {"Emission", "Material Output"},
                                     !.links = {<<"Emission", "Material Output">>}]] }

BlendFile ==
    <<"D:", "Work", "Critical", "Assets", "Models", "Blender", "ReactorOperatorPanel.blend">>
HomeDir == <<"C:", "Users", "operator">>

\* the directories that exist: none of interest, the parent of the first
\* candidate, the first candidate itself, the parent of a fixed candidate, or
\* a candidate below the home directory
DirChoices ==
    { {},
      { <<"D:", "Work", "Critical", "Assets", "Textures">> },
      { <<"D:", "Work", "Critical", "Assets", "Textures">>,
        <<"D:", "Work", "Critical", "Assets", "Textures", "ReactorOperatorPanel">> },
      { <<"C:", "Users", "craig", "Projects", "Critical", "Assets", "Resources">> },
      { JoinPath(HomeDir, <<"Projects", "Critical", "Assets", "Textures",
                            "ReactorOperatorPanel">>) } }

RenderEnvs ==
    [blend_path : {NoPath, BlendFile},
     home : {HomeDir},
     dirs : DirChoices,
     makedirs_raises : BOOLEAN,
     cycles_addon : BOOLEAN,
     compute_ok : {{}, {"CUDA", "HIP"}},
     compute_device_type : {"NONE"},
     files : {{}}]

InitRender ==
    /\ script = "render"
    /\ pc = "start"
    /\ cfg = NoConfig
    /\ \E pre \in PreScenes, with_panel \in BOOLEAN :
          objs = IF with_panel THEN AddObjects(pre, MaxPre + 1, PanelStub(MaxPre + 1))
                 ELSE pre
    /\ nextId = MaxPre + 4
    /\ selected = {}
    /\ active = 0
    /\ mats \in RenderMaterials
    /\ root = 0
    /\ failed = {}
    /\ locals = NoLocals
    /\ \E cam \in {0} \cup Cameras(objs) : scene = [DefaultScene EXCEPT !.camera = cam]
    /\ env \in RenderEnvs
    /\ OUTPUT_DIR = NoPath
    /\ result = None
    /\ log = <<>>
    /\ before = Snapshot

SpecRender == InitRender /\ [][NextRender]_vars


(***************************************************************************)
(* Properties of build_panel.                                              *)
(***************************************************************************)
\* the objects the running script created
Created == {i \in DOMAIN objs : ~IsPre(i)}

\* the created objects with a given name
ByName(n) == {i \in Created : objs[i].name = n}

\* the positions of build_panel, in program order
PanelOrder ==
    <<"start", "materials", "body", "left", "core", "right", "detail", "bottom",
      "dividers", "modifiers", "lighting", "done">>

\* build_panel has completed the section p
PanelPast(p) ==
    /\ script = "panel"
    /\ \E k, m \in DOMAIN PanelOrder :
          PanelOrder[k] = p /\ PanelOrder[m] = pc /\ k < m

\* the created meshes that lie inside the rectangle [x0, x1] x [y0, y1]
MeshesIn(x0, x1, y0, y1) ==
    {i \in Created : /\ objs[i].type = "MESH"
                     /\ x0 <= Lo(objs[i], 1) /\ Hi(objs[i], 1) <= x1
                     /\ y0 <= Lo(objs[i], 2) /\ Hi(objs[i], 2) <= y1}

BezelSuffixes == {"_top", "_bot", "_left", "_right", "_display"}

\* a frame bar is raised above the panel face and carries the bevel
IsRaisedBar(o) ==
    o.type = "MESH" /\ Lo(o, 3) = 0 /\ Hi(o, 3) = BEZEL_DEPTH /\ o.mat = "Bezel"

\* a display area is sunk below the panel face
IsRecess(o) ==
    o.type = "MESH" /\ Hi(o, 3) = 0 /\ Lo(o, 3) = -RECESS_DEPTH
    /\ o.mat = "Recess_Display"

\* the objects in ids are exactly the bezels named in bases: for every base
\* name one object per suffix, four raised bars and one recess
AreBezels(ids, bases) ==
    /\ Cardinality(ids) = 5 * Cardinality(bases)
    /\ {objs[i].name : i \in ids} = {b \o s : b \in bases, s \in BezelSuffixes}
    /\ \A b \in bases :
          /\ \A s \in BezelSuffixes :
                Cardinality({i \in ids : objs[i].name = b \o s}) = 1
          /\ \A i \in ids :
                /\ objs[i].name \in {b \o s : s \in BezelSuffixes \ {"_display"}}
                      => IsRaisedBar(objs[i])
                /\ objs[i].name = b \o "_display" => IsRecess(objs[i])

LeftBezelNames == {"Gauge_L_" \o gauge_names_left[k] : k \in DOMAIN gauge_names_left}
RightBezelNames == {"Gauge_R_" \o gauge_names_right[k] : k \in DOMAIN gauge_names_right}

\* the meshes inside the left and the right gauge panel
LeftPanelMeshes ==
    MeshesIn(0, Pct(PANEL_WIDTH, 15), Pct(PANEL_HEIGHT, 26), PANEL_HEIGHT)
RightPanelMeshes ==
    MeshesIn(Pct(PANEL_WIDTH, 65), Pct(PANEL_WIDTH, 80), Pct(PANEL_HEIGHT, 26),
             PANEL_HEIGHT)

\* C2: an error raised by any modifier application is caught and ignored:
\* the build is always at a position of build_panel, never stopped at a failed
\* application; once the loop is over exactly the modifiers whose application
\* raised are left on their objects; and the finished build has the three
\* lights and the root as the selected and active object
C2_ModifierErrorsIgnored ==
    script = "panel" =>
        /\ pc \in Range(PanelOrder)
        /\ PanelPast("modifiers") =>
              \A i \in DOMAIN objs : HasModifiers(objs[i]) <=> i \in failed
        /\ pc = "done" =>
              /\ \A n \in {"KeyLight", "FillLight", "RimLight"} :
                    \E i \in ByName(n) : objs[i].type = "LIGHT"
              /\ selected = {root} /\ active = root

\* a finished build in which a modifier application raised
C2_Witness == script = "panel" /\ pc = "done" /\ failed # {} /\ ByName("RimLight") # {}

\* C6: the left gauge panel holds exactly 9 bezels and the right one exactly
\* 8, every bezel is five objects (four raised bars _top, _bot, _left, _right
\* and one recessed _display), and the 17 bezel names are distinct
C6_GaugeBezels ==
    PanelPast("right") =>
        /\ Cardinality(LeftBezelNames) = 9
        /\ Cardinality(RightBezelNames) = 8
        /\ Cardinality(LeftBezelNames \cup RightBezelNames) = 17
        /\ \E left \in {LeftPanelMeshes} : AreBezels(left, LeftBezelNames)
        /\ \E right \in {RightPanelMeshes} : AreBezels(right, RightBezelNames)

\* a finished panel with both gauge columns
C6_Witness ==
    /\ script = "panel" /\ pc = "done"
    /\ Cardinality(LeftPanelMeshes) = 45 /\ Cardinality(RightPanelMeshes) = 40

\* the tile recesses of the annunciator: the recessed areas that lie inside
\* the display area d of the annunciator frame
AnnunciatorTilesIn(d) ==
    {i \in MeshesIn(Lo(objs[d], 1), Hi(objs[d], 1), Lo(objs[d], 2), Hi(objs[d], 2)) :
        i # d /\ IsRecess(objs[i])}

\* the tiles of ids stand in rows x cols: that many distinct bottom edges and
\* left edges, and one tile at every crossing
IsGrid(ids, rows, cols) ==
    /\ Cardinality(ids) = rows * cols
    /\ Cardinality({Lo(objs[i], 2) : i \in ids}) = rows
    /\ Cardinality({Lo(objs[i], 1) : i \in ids}) = cols
    /\ \A i, j \in ids :
          (Lo(objs[i], 1) = Lo(objs[j], 1) /\ Lo(objs[i], 2) = Lo(objs[j], 2)) => i = j

\* C7: the annunciator frame contains a 4x4 grid of tile recesses, 4 rows of
\* 4 tiles each
C7_FourByFourGrid ==
    PanelPast("bottom") =>
        \A d \in ByName("AnnunciatorFrame_display") :
            IsGrid(AnnunciatorTilesIn(d), 4, 4)

\* what build_panel builds instead: 2 rows of 8 tiles
C7_TwoByEightBuilt ==
    /\ script = "panel" /\ pc = "done"
    /\ \E d \in ByName("AnnunciatorFrame_display") :
          IsGrid(AnnunciatorTilesIn(d), 2, 8)

\* the five frames of the upper row of the bottom panel
UpperRowFrames ==
    {"RodControlFrame", "BankPositionsFrame", "BoronControlFrame",
     "TripControlFrame", "TimeControlFrame"}

\* the five objects of the frame named f
FrameParts(f) == UNION {ByName(f \o s) : s \in BezelSuffixes}

\* the least and the greatest element of a non-empty set of numbers
SetMin(S) == CHOOSE v \in S : \A w \in S : v <= w
SetMax(S) == CHOOSE v \in S : \A w \in S : w <= v

\* the bounding box of the objects ids: [n |-> how many, lo, hi |-> corners]
BoundingBox(ids) ==
    [n  |-> Cardinality(ids),
     lo |-> [k \in 1 .. 2 |-> SetMin({Lo(objs[i], k) : i \in ids})],
     hi |-> [k \in 1 .. 2 |-> SetMax({Hi(objs[i], k) : i \in ids})]]

\* the bounding boxes of the frames named in fs
FrameBoxes(fs) == [f \in fs |-> BoundingBox(FrameParts(f))]

\* two boxes share more than an edge along axis k
OverlapAlong(a, b, k) == a.lo[k] < b.hi[k] /\ b.lo[k] < a.hi[k]

\* the height of the bottom panel: 0.26 of the panel height
BottomPanelHeight == Pct(PANEL_HEIGHT, 26)

\* C8: the five upper-row frames of the bottom panel lie within 0.55-0.95 of
\* the bottom panel's height, are pairwise disjoint in x, and none of them
\* overlaps the AnnunciatorFrame, which spans the full width within 0.05-0.50
C8_UpperRowFrames ==
    PanelPast("bottom") =>
        \E box \in {FrameBoxes(UpperRowFrames \cup {"AnnunciatorFrame"})} :
            /\ \A f \in DOMAIN box : box[f].n = 5
            /\ \A f \in UpperRowFrames :
                  /\ Pct(BottomPanelHeight, 55) <= box[f].lo[2]
                  /\ box[f].hi[2] <= Pct(BottomPanelHeight, 95)
                  /\ ~(/\ OverlapAlong(box[f], box["AnnunciatorFrame"], 1)
                       /\ OverlapAlong(box[f], box["AnnunciatorFrame"], 2))
            /\ \A f, g \in UpperRowFrames :
                  f # g => ~OverlapAlong(box[f], box[g], 1)
            /\ box["AnnunciatorFrame"].lo = <<Pct(PANEL_WIDTH, 1), Pct(BottomPanelHeight, 5)>>
            /\ box["AnnunciatorFrame"].hi = <<Pct(PANEL_WIDTH, 99), Pct(BottomPanelHeight, 50)>>

\* a finished panel whose BankPositionsFrame stands above the annunciator
C8_Witness ==
    /\ script = "panel" /\ pc = "done"
    /\ \E box \in {FrameBoxes({"BankPositionsFrame", "AnnunciatorFrame"})} :
          /\ box["BankPositionsFrame"].n = 5 /\ box["AnnunciatorFrame"].n = 5
          /\ OverlapAlong(box["BankPositionsFrame"], box["AnnunciatorFrame"], 1)
          /\ box["AnnunciatorFrame"].hi[2] <= box["BankPositionsFrame"].lo[2]

(***************************************************************************)
(* Properties of render_panel.                                             *)
(***************************************************************************)
\* the file render_panel was started in holds the panel root
RootExisted == get_object(before.objs, "ReactorOperatorPanel") # 0

IsPrefix(a, b) == Len(a) <= Len(b) /\ a = SubSeq(b, 1, Len(a))

\* how often the event e is in the log
Count(e) == Cardinality({k \in DOMAIN log : log[k] = e})

\* C3: without an object named ReactorOperatorPanel render_panel returns
\* False and changes nothing: objects and cameras, scene camera, render
\* settings and filepath, materials, file system and OUTPUT_DIR are as they
\* were, and the render operation is never invoked
C3_NoRootNoChange ==
    (script = "render" /\ ~RootExisted) =>
        /\ pc \in {"start", "done"}
        /\ pc = "done" => result = "False"
        /\ objs = before.objs
        /\ scene = before.scene
        /\ mats = before.mats
        /\ env = before.env
        /\ OUTPUT_DIR = NoPath
        /\ log = <<>>

\* render_panel has returned False in a file that holds a camera and the
\* recess material, but no panel root
C3_Witness ==
    /\ script = "render" /\ pc = "done" /\ result = "False" /\ ~RootExisted
    /\ Cameras(objs) # {}
    /\ "Recess_Display" \in DOMAIN mats

\* the steps in the order the claim lists them
AllSteps == <<"output_dir", "camera", "settings", "transparent", "filepath", "render">>

\* the steps a run takes in a file with the materials ms
StepsFor(ms) ==
    IF CanRewire(ms) THEN AllSteps
    ELSE <<"output_dir", "camera", "settings", "filepath", "render">>

\* what the set-up steps leave behind, apart from the recess material
SetUpDone ==
    /\ OUTPUT_DIR # NoPath
    /\ scene.camera \in DOMAIN objs
    /\ objs[scene.camera].name = "RenderCamera"
    /\ Cameras(objs) = {scene.camera}
    /\ scene.engine = "CYCLES"
    /\ scene.device \in {"GPU", "CPU"}
    /\ scene.samples = 128
    /\ scene.resolution = <<3840, 2160>>
    /\ scene.color_mode = "RGBA"
    /\ scene.film_transparent
    /\ scene.filepath = JoinPath(OUTPUT_DIR, <<"panel_base_color.png">>)

IsTransparent(ms) ==
    /\ "Recess_Display" \in DOMAIN ms
    /\ ms["Recess_Display"].blend = "BLEND"
    /\ <<"Mix Shader", "Material Output">> \in ms["Recess_Display"].links

PreExisting == DOMAIN before.objs

HasReturned(fn) == script = "call" /\ pc = "done" /\ locals.fn = fn

\* the anchor rectangle lies inside the unit square
InUnitSquare(a) ==
    /\ 0 <= a[1] /\ 0 <= a[2] /\ 0 <= a[3] /\ 0 <= a[4]
    /\ a[1] + a[3] <= 100 /\ a[2] + a[4] <= 100

C9_ClampedLinear ==
    /\ HasReturned("value_to_normalized") =>
          \E v \in {locals.args[1]}, r \in {locals.ret[1]} :
              /\ 0 <= r /\ r <= 1000
              /\ v <= cfg.min_value => r = 0
              /\ v >= cfg.max_value => r = 1000
              /\ cfg.min_value <= v /\ v <= cfg.max_value =>
                    /\ r * (cfg.max_value - cfg.min_value) <= (v - cfg.min_value) * 1000
                    /\ r = 1000 \/ (v - cfg.min_value) * 1000
                                      < (r + 1) * (cfg.max_value - cfg.min_value)
              /\ \A w \in TestValues(cfg) :
                    w <= v => value_to_normalized(w, cfg) <= r
    /\ HasReturned("value_to_y_position") =>
          locals.ret[1] = (value_to_normalized(locals.args[1], cfg) * locals.args[2])
                              \div 1000
    /\ HasReturned("value_to_angle") =>
          \E v \in {locals.args[1]}, r \in {locals.ret[1]} :
              /\ v <= cfg.min_value => r = Radians(cfg.start_angle)
              /\ v >= cfg.max_value => r = Radians(cfg.start_angle - cfg.sweep_angle)
              /\ Min2(Radians(cfg.start_angle),
                      Radians(cfg.start_angle - cfg.sweep_angle)) <= r
              /\ r <= Max2(Radians(cfg.start_angle),
                           Radians(cfg.start_angle - cfg.sweep_angle))

\* a value above the scale was clamped to 1
C9_Witness ==
    /\ HasReturned("value_to_normalized")
    /\ locals.args[1] > cfg.max_value
    /\ locals.ret = <<1000>>

(***************************************************************************)
(* Properties of create_bar_gauge.                                         *)
(***************************************************************************)
\* the doubled extent along y of object o when its scale.y is f: the mesh is
\* scaled about the object's origin and moved to its location
ExtentY2(o, f) ==
    << o.loc2[2] + (f * (o.offset2[2] - o.dim[2])) \div 1000,
       o.loc2[2] + (f * (o.offset2[2] + o.dim[2])) \div 1000 >>

\* the fill levels looked at, in thousandths
FillLevels == {0, 1, 250, 400, 500, 750, 999, 1000}

\* C10: the Fill object has its pivot at the bottom: its mesh spans local y
\* from 0 to tube_height, it is placed at tube_bottom_y, with scale.y = f in
\* [0,1] it occupies exactly [tube_bottom_y, tube_bottom_y + f*tube_height],
\* which never leaves the tube's extent, and initially f = initial_fill.
C10_FillGrowsUpward ==
    script = "bar" /\ pc \notin {"start", "body"} =>
        /\ Cardinality(ByName("Fill")) = 1
        /\ Cardinality(ByName("Tube")) = 1
        /\ \E fill \in {objs[i] : i \in ByName("Fill")},
              tube \in {objs[i] : i \in ByName("Tube")} :
              /\ fill.parent = root /\ tube.parent = root
              /\ fill.offset2[2] - fill.dim[2] = 0
              /\ fill.offset2[2] + fill.dim[2] = 2 * tube_height(cfg)
              /\ fill.loc2[2] = tube_bottom_y2(cfg)
              /\ fill.scale = <<1000, cfg.initial_fill, 1000>>
              /\ \A f \in FillLevels :
                    /\ ExtentY2(fill, f) =
                          << tube_bottom_y2(cfg),
                             tube_bottom_y2(cfg) + (f * 2 * tube_height(cfg)) \div 1000 >>
                    /\ ExtentY2(tube, 1000)[1] <= ExtentY2(fill, f)[1]
                    /\ ExtentY2(fill, f)[2] <= ExtentY2(tube, 1000)[2]

\* a finished thermometer, whose tube is shortened by the bulb
C10_Witness ==
    /\ script = "bar" /\ pc = "done" /\ cfg.style = "thermometer"
    /\ \E i \in ByName("Fill") : objs[i].scale[2] = 400


(***************************************************************************)
(* Properties of create_gauge and create_bar_gauge: the object tree.       *)
(***************************************************************************)
\* the created objects whose parent is p, and the names of a set of objects
Children(p) == {i \in Created : objs[i].parent = p}
NamesOf(ids) == {objs[i].name : i \in ids}

\* the one created child of p named n (0 if there is none or several)
Child(p, n) ==
    IF Cardinality({i \in Children(p) : objs[i].name = n}) = 1
    THEN CHOOSE i \in Children(p) : objs[i].name = n
    ELSE 0

\* r is reached from i by following parent at most n times
RECURSIVE HasAncestor(_, _, _)
HasAncestor(i, r, n) ==
    /\ n > 0
    /\ objs[i].parent \in Created
    /\ objs[i].parent = r \/ HasAncestor(objs[i].parent, r, n - 1)

\* the names "<prefix>0", "<prefix>1", ... of n objects
Indexed(prefix, n) == {prefix \o IntStr(k) : k \in 0 .. n - 1}

\* the children of group g are named prefix0, prefix1, ... without gaps or
\* repetitions
IsIndexedGroup(g, prefix) ==
    NamesOf(Children(g)) = Indexed(prefix, Cardinality(Children(g)))

\* create_gauge, or create_bar_gauge, has returned
GaugeCreated(s) == script = s /\ pc \in {"select", "done"}

\* C11: after create_gauge the created objects form exactly the documented
\* tree: the root Gauge_<name> has the children Bezel, Face, Scale, Needle,
\* NeedleHub, Label and Units; Scale has the children MajorTicks, MinorTicks,
\* Numbers and Zones; every tick, number and zone is a child of its group;
\* every created object is linked, and every one but the root has a parent
\* and the root as an ancestor.
C11_ArcGaugeTree ==
    GaugeCreated("arc") =>
        \E scale \in {Child(root, "Scale")} :
        \E major \in {Child(scale, "MajorTicks")}, minor \in {Child(scale, "MinorTicks")},
           numbers \in {Child(scale, "Numbers")}, zones \in {Child(scale, "Zones")} :
            /\ root \in Created /\ objs[root].parent = NoParent
            /\ objs[root].name = "Gauge_" \o cfg.name
            /\ NamesOf(Children(root)) =
                  {"Bezel", "Face", "Scale", "Needle", "NeedleHub", "Label", "Units"}
            /\ Cardinality(Children(root)) = 7
            /\ scale # 0 /\ Cardinality(Children(scale)) = 4
            /\ major # 0 /\ minor # 0 /\ numbers # 0 /\ zones # 0
            /\ IsIndexedGroup(major, "MajorTick_")
            /\ IsIndexedGroup(minor, "MinorTick_")
            /\ IsIndexedGroup(numbers, "Number_")
            /\ NamesOf(Children(zones)) \subseteq {"Zone_Normal", "Zone_Warning", "Zone_Danger"}
            /\ Cardinality(Children(zones)) = Cardinality(NamesOf(Children(zones)))
            /\ Created = {root} \cup Children(root) \cup Children(scale)
                         \cup Children(major) \cup Children(minor)
                         \cup Children(numbers) \cup Children(zones)
            /\ \A i \in Created :
                  /\ objs[i].linked
                  /\ i # root => HasAncestor(i, root, 3)

\* a finished flow gauge: ticks, numbers and three zones in their groups
C11_Witness ==
    /\ script = "arc" /\ pc = "done" /\ cfg.name = "Flow"
    /\ \E z \in ByName("Zones") :
          /\ Cardinality(Children(z)) = 3
          /\ objs[z].parent \in ByName("Scale")
    /\ \E m \in ByName("MinorTicks") : Cardinality(Children(m)) = 18

\* C12: after create_bar_gauge the created objects form the documented tree
\* rooted at BarGauge_<name>: the root has the children Housing, Background,
\* Tube, Fill, Scale, Zones, Label and Units, Scale has the children
\* MajorTicks, MinorTicks and Numbers, and the root has a child Bulb exactly
\* when config.style is "thermometer".
C12_BarGaugeTree ==
    GaugeCreated("bar") =>
        \E scale \in {Child(root, "Scale")}, zones \in {Child(root, "Zones")} :
        \E major \in {Child(scale, "MajorTicks")}, minor \in {Child(scale, "MinorTicks")},
           numbers \in {Child(scale, "Numbers")} :
            /\ root \in Created /\ objs[root].parent = NoParent
            /\ objs[root].name = "BarGauge_" \o cfg.name
            /\ NamesOf(Children(root)) \ {"Bulb"} =
                  {"Housing", "Background", "Tube", "Fill", "Scale", "Zones",
                   "Label", "Units"}
            /\ (Child(root, "Bulb") # 0) <=> (cfg.style = "thermometer")
            /\ ("Bulb" \in NamesOf(Children(root))) <=> (cfg.style = "thermometer")
            /\ Cardinality(Children(root)) = Cardinality(NamesOf(Children(root)))
            /\ scale # 0 /\ zones # 0
            /\ NamesOf(Children(scale)) = {"MajorTicks", "MinorTicks", "Numbers"}
            /\ Cardinality(Children(scale)) = 3
            /\ IsIndexedGroup(major, "MajorTick_")
            /\ IsIndexedGroup(minor, "MinorTick_")
            /\ IsIndexedGroup(numbers, "Number_")
            /\ NamesOf(Children(zones)) \subseteq {"Zone_Normal", "Zone_Warning", "Zone_Danger"}
            /\ Cardinality(Children(zones)) = Cardinality(NamesOf(Children(zones)))
            /\ Created = {root} \cup Children(root) \cup Children(scale)
                         \cup Children(major) \cup Children(minor)
                         \cup Children(numbers) \cup Children(zones)
            /\ \A i \in Created : objs[i].linked

\* a finished thermometer with its bulb, and a finished bar without one
C12_Witness ==
    /\ script = "bar" /\ pc = "done" /\ cfg.style = "thermometer"
    /\ Child(root, "Bulb") # 0
    /\ \E s \in ByName("Scale") : Cardinality(Children(s)) = 3

C12_WitnessNoBulb ==
    /\ script = "bar" /\ pc = "done" /\ cfg.style # "thermometer"
    /\ Child(root, "Bulb") = 0 /\ Child(root, "Fill") # 0

(***************************************************************************)
(* Properties of the RCS primary loop model.                               *)
(***************************************************************************)
\* the one created object named n (0 if there is none or several)
TheObject(n) ==
    IF Cardinality(ByName(n)) = 1 THEN CHOOSE i \in ByName(n) : TRUE ELSE 0

\* point p lies on the axis of nozzle nz, inside the stub
OnNozzle(p, nz) == \E r \in nz.inner .. nz.outer : p = Polar(nz.angle, r, nz.z)

\* point p lies on the vertical axis through the location of object o
OnAxisOf(p, o) == 2 * p[1] = o.loc2[1] /\ 2 * p[2] = o.loc2[2]

\* the squared distance of two points
Dist2(p, q) ==
    (q[1] - p[1]) * (q[1] - p[1]) + (q[2] - p[2]) * (q[2] - p[2])
    + (q[3] - p[3]) * (q[3] - p[3])

\* pipe o is the cylinder of the segment from o.start to o.end: placed at
\* its midpoint, as long as the segment (to the unit of length of the model)
IsSegment(o) ==
    /\ o.loc2 = <<o.start[1] + o.end[1], o.start[2] + o.end[2], o.start[3] + o.end[3]>>
    /\ o.depth * o.depth <= Dist2(o.start, o.end)
    /\ Dist2(o.start, o.end) < (o.depth + 1) * (o.depth + 1)

\* the three pipes of loop k have been created
LoopPiped(k) == script = "rcs" /\ ByName("ColdLeg_" \o Str(k)) # {}

\* C13: in each loop the pipes form the closed chain vessel, hot leg, steam
\* generator, crossover leg, pump, cold leg, vessel: the hot leg runs from
\* the vessel's outlet nozzle of the loop to the axis of the loop's steam
\* generator, the crossover leg from that axis to the position stored for
\* the loop's pump, the cold leg from that pump to the vessel's inlet nozzle
\* of the loop, 45 degrees past the loop angle; every pipe has the midpoint
\* and the length of the segment between its end points.
C13_LoopChain ==
    \A k \in 1 .. 4 : LoopPiped(k) =>
        \E rv \in {TheObject("ReactorVessel")},
           sg \in {TheObject("SteamGenerator_" \o Str(k))},
           rcp \in {TheObject("RCP_" \o Str(k))},
           hot \in {TheObject("HotLeg_" \o Str(k))},
           cross \in {TheObject("CrossoverLeg_" \o Str(k))},
           cold \in {TheObject("ColdLeg_" \o Str(k))} :
            /\ rv # 0 /\ sg # 0 /\ rcp # 0 /\ hot # 0 /\ cross # 0 /\ cold # 0
            /\ OnNozzle(objs[hot].start, objs[rv].outlets[k])
            /\ objs[rv].outlets[k].angle = LoopAngle(k - 1)
            /\ OnAxisOf(objs[hot].end, objs[sg])
            /\ OnAxisOf(objs[cross].start, objs[sg])
            /\ objs[cross].end = objs[rcp].position
            /\ OnAxisOf(objs[cold].start, objs[rcp])
            /\ objs[cold].start[3] >= objs[rcp].position[3]
            /\ objs[cold].start[3] <= objs[rcp].position[3] + RCP_BODY_HEIGHT
            /\ OnNozzle(objs[cold].end, objs[rv].inlets[k])
            /\ objs[rv].inlets[k].angle = LoopAngle(k - 1) + 45
            /\ IsSegment(objs[hot]) /\ IsSegment(objs[cross]) /\ IsSegment(objs[cold])

\* all four loops piped, the pipes having a length
C13_Witness ==
    /\ \A k \in 1 .. 4 : LoopPiped(k)
    /\ \E c \in ByName("ColdLeg_4") : objs[c].depth > 0 /\ objs[c].start # objs[c].end

\* the names made of a prefix and the loop numbers 1 to 4
PerLoop(prefix) == {prefix \o Str(k) : k \in 1 .. 4}

\* the children of group g are exactly one object for each name of names
HoldsExactly(g, names) ==
    /\ NamesOf(Children(g)) = names
    /\ Cardinality(Children(g)) = Cardinality(names)

\* main of the RCS script has built the model
RcsBuilt == script = "rcs" /\ pc \in {"scene", "done"}

\* C14: the RCS main builds exactly four loops numbered 1 to 4, at 45, 135,
\* 225 and 315 degrees, each with one SteamGenerator_i, RCP_i, HotLeg_i,
\* CrossoverLeg_i and ColdLeg_i, plus one ReactorVessel, one Pressurizer and
\* one SurgeLine; the components are the children of Components, the pipes
\* of Piping, the 8 flow arrows of FlowArrows, the 4 loop labels of Labels,
\* and the four groups are the children of the root RCS_Primary_Loop; the
\* pipes of loop i use the pump position recorded for loop i.
C14_FourLoops ==
    RcsBuilt =>
        /\ root \in Created /\ objs[root].name = "RCS_Primary_Loop"
        /\ objs[root].parent = NoParent
        /\ ByName("RCS_Primary_Loop") = {root}
        /\ HoldsExactly(root, {"Components", "Piping", "FlowArrows", "Labels"})
        /\ HoldsExactly(Child(root, "Components"),
              {"ReactorVessel", "Pressurizer"}
              \cup PerLoop("SteamGenerator_") \cup PerLoop("RCP_"))
        /\ HoldsExactly(Child(root, "Piping"),
              {"SurgeLine"} \cup PerLoop("HotLeg_") \cup PerLoop("CrossoverLeg_")
              \cup PerLoop("ColdLeg_"))
        /\ HoldsExactly(Child(root, "FlowArrows"),
              PerLoop("FlowArrow_HotLeg_") \cup PerLoop("FlowArrow_ColdLeg_"))
        /\ HoldsExactly(Child(root, "Labels"), PerLoop("Label_Loop_"))
        /\ \A n \in {"ReactorVessel", "Pressurizer", "SurgeLine"}
                    \cup PerLoop("SteamGenerator_") \cup PerLoop("RCP_")
                    \cup PerLoop("HotLeg_") \cup PerLoop("CrossoverLeg_")
                    \cup PerLoop("ColdLeg_") : Cardinality(ByName(n)) = 1
        /\ Len(locals.rcp_positions) = 4
        /\ \A k \in 1 .. 4 :
              \E sg \in ByName("SteamGenerator_" \o Str(k)),
                 rcp \in ByName("RCP_" \o Str(k)),
                 cross \in ByName("CrossoverLeg_" \o Str(k)),
                 cold \in ByName("ColdLeg_" \o Str(k)) :
                  /\ LoopAngle(k - 1) = 90 * k - 45
                  /\ OnAxisOf(Polar(90 * k - 45, LOOP_RADIUS, 0), objs[sg])
                  /\ objs[rcp].position = locals.rcp_positions[k]
                  /\ objs[cross].end = locals.rcp_positions[k]
                  /\ OnAxisOf(objs[cold].start, objs[rcp])
                  /\ \A j \in 1 .. 4 \ {k} :
                        locals.rcp_positions[j] # locals.rcp_positions[k]

\* the finished model: 13 pipes, 10 components, 8 arrows, 4 labels
C14_Witness ==
    /\ script = "rcs" /\ pc = "done"
    /\ Cardinality(Children(Child(root, "Piping"))) = 13
    /\ Cardinality(Children(Child(root, "Components"))) = 10
    /\ Cardinality(Children(Child(root, "FlowArrows"))) = 8
    /\ Cardinality(Children(Child(root, "Labels"))) = 4

(***************************************************************************)
(* The tick loops in Python's float arithmetic.  config.min_value,         *)
(* max_value and the tick intervals are floats, and the loops add the      *)
(* interval to value pass after pass, so for intervals such as 0.1 the     *)
(* value drifts from the decimal position.  A float is held here exactly,  *)
(* as a multiple of 2^-62 written in five limbs of 15 bits, least          *)
(* significant limb first; every double from 0.001 to below 4 is such a    *)
(* multiple, and a sum is rounded to 53 significant bits, ties to even, as *)
(* IEEE 754 addition does.  A config carries, besides its floats, the      *)
(* number per_major of minor intervals that make up a major interval (0 if *)
(* the major interval is no multiple of the minor one).                    *)
(***************************************************************************)
Base == 2 ^ 15

\* float(lit) for the literals used, in units of 2^-62
FloatOf ==
    [lit \in {"0.0", "0.001", "0.05", "0.1", "0.25", "0.5", "1.0", "2.0", "3.0"} |->
        CASE lit = "0.0"   -> <<0, 0, 0, 0, 0>>
          [] lit = "0.001" -> <<10748, 9699, 2359, 131, 0>>
          [] lit = "0.05"  -> <<13120, 26214, 19660, 6553, 0>>
          [] lit = "0.1"   -> <<26240, 19660, 6553, 13107, 0>>
          [] lit = "0.25"  -> <<0, 0, 0, 0, 1>>
          [] lit = "0.5"   -> <<0, 0, 0, 0, 2>>
          [] lit = "1.0"   -> <<0, 0, 0, 0, 4>>
          [] lit = "2.0"   -> <<0, 0, 0, 0, 8>>
          [] lit = "3.0"   -> <<0, 0, 0, 0, 12>>]

\* a number below Base as limbs
Small(k) == <<k, 0, 0, 0, 0>>

RECURSIVE BigAddC(_, _, _)
BigAddC(a, b, carry) ==
    IF a = <<>> THEN <<>>
    ELSE <<(Head(a) + Head(b) + carry) % Base>>
         \o BigAddC(Tail(a), Tail(b), (Head(a) + Head(b) + carry) \div Base)
BigAdd(a, b) == BigAddC(a, b, 0)

\* a - b for a >= b
RECURSIVE BigSubB(_, _, _)
BigSubB(a, b, borrow) ==
    IF a = <<>> THEN <<>>
    ELSE <<(Head(a) - Head(b) - borrow + Base) % Base>>
         \o BigSubB(Tail(a), Tail(b),
                    IF Head(a) - Head(b) - borrow < 0 THEN 1 ELSE 0)
BigSub(a, b) == BigSubB(a, b, 0)

RECURSIVE BigLess(_, _)
BigLess(a, b) ==
    /\ a # <<>>
    /\ IF a[Len(a)] # b[Len(b)] THEN a[Len(a)] < b[Len(b)]
       ELSE BigLess(SubSeq(a, 1, Len(a) - 1), SubSeq(b, 1, Len(b) - 1))
BigLeq(a, b) == ~BigLess(b, a)

\* the number of significant bits
RECURSIVE BitsOf(_)
BitsOf(l) == IF l = 0 THEN 0 ELSE 1 + BitsOf(l \div 2)
RECURSIVE BitLen(_)
BitLen(a) ==
    IF a = <<>> THEN 0
    ELSE IF a[Len(a)] # 0 THEN 15 * (Len(a) - 1) + BitsOf(a[Len(a)])
    ELSE BitLen(SubSeq(a, 1, Len(a) - 1))

\* the nearest double, ties to even: at most 53 significant bits are kept
\* (the numbers here are below 2^67, so fewer than 15 bits are dropped)
RoundDouble(a) ==
    IF BitLen(a) <= 53 THEN a
    ELSE LET q    == 2 ^ (BitLen(a) - 53)
             r    == a[1] % q
             odd  == (a[1] \div q) % 2 = 1
             down == BigSub(a, Small(r))
         IN  IF 2 * r > q \/ (2 * r = q /\ odd) THEN BigAdd(down, Small(q))
             ELSE down

\* a + b, a - b (for a >= b) and a % b (for a >= 0, b > 0) on floats; the
\* remainder of two floats is a float, so % does not round
FAdd(a, b) == RoundDouble(BigAdd(a, b))
FSub(a, b) == RoundDouble(BigSub(a, b))
RECURSIVE FMod(_, _)
FMod(a, b) == IF BigLess(a, b) THEN a ELSE FMod(BigSub(a, b), b)

\* a scale given by its four literals
TickConfig(min, max, major, minor, per_major) ==
    [min_value |-> FloatOf[min], max_value |-> FloatOf[max],
     major_tick_interval |-> FloatOf[major],
     minor_tick_interval |-> FloatOf[minor], per_major |-> per_major]

TickConfigs ==
    { TickConfig("0.0", "1.0", "0.5", "0.1", 5),
      TickConfig("0.0", "1.0", "0.25", "0.05", 5),
      TickConfig("0.0", "2.0", "0.5", "0.1", 5),
      TickConfig("0.0", "2.0", "1.0", "0.25", 4),
      TickConfig("0.0", "3.0", "1.0", "0.5", 2),
      TickConfig("1.0", "3.0", "0.5", "0.25", 2),
      TickConfig("1.0", "2.0", "0.5", "0.1", 5) }

\* value <= config.max_value + 0.001
FloatInScale(value, config) ==
    BigLeq(value, FAdd(config.max_value, FloatOf["0.001"]))

\* abs((value - config.min_value) % config.major_tick_interval) > 0.001
FloatOffMajor(value, config) ==
    BigLess(FloatOf["0.001"],
            FMod(FSub(value, config.min_value), config.major_tick_interval))

\* one pass of the major tick loop: the tick is placed at value
TickMajor ==
    /\ script = "ticks" /\ pc = "major" /\ FloatInScale(locals.value, cfg)
    /\ locals' = [locals EXCEPT
                     !.major = Append(@, [index |-> locals.tick_idx,
                                          value |-> locals.value]),
                     !.value = FAdd(@, cfg.major_tick_interval),
                     !.tick_idx = @ + 1]
    /\ UNCHANGED <<script, pc, objs, nextId, selected, active, mats, root, failed,
                   before, cfg, renderVars>>

TickMajorDone ==
    /\ script = "ticks" /\ pc = "major" /\ ~FloatInScale(locals.value, cfg)
    /\ locals' = [locals EXCEPT !.value = cfg.min_value, !.tick_idx = 0]
    /\ pc' = "minor"
    /\ UNCHANGED <<script, objs, nextId, selected, active, mats, root, failed,
                   before, cfg, renderVars>>

\* one pass of the minor tick loop: a tick is placed unless the value is
\* found to be a major tick position; passes counts the passes made
TickMinor ==
    /\ script = "ticks" /\ pc = "minor" /\ FloatInScale(locals.value, cfg)
    /\ locals' = [locals EXCEPT
                     !.minor = IF FloatOffMajor(locals.value, cfg)
                               THEN Append(@, [index |-> locals.tick_idx,
                                               value |-> locals.value,
                                               pass |-> locals.passes])
                               ELSE @,
                     !.tick_idx = IF FloatOffMajor(locals.value, cfg)
                                  THEN @ + 1 ELSE @,
                     !.value = FAdd(@, cfg.minor_tick_interval),
                     !.passes = @ + 1]
    /\ UNCHANGED <<script, pc, objs, nextId, selected, active, mats, root, failed,
                   before, cfg, renderVars>>

TickMinorDone ==
    /\ script = "ticks" /\ pc = "minor" /\ ~FloatInScale(locals.value, cfg)
    /\ pc' = "done"
    /\ UNCHANGED <<script, objs, nextId, selected, active, mats, root, failed,
                   before, cfg, locals, renderVars>>

NextTicks == TickMajor \/ TickMajorDone \/ TickMinor \/ TickMinorDone

InitTicks ==
    /\ script = "ticks"
    /\ pc = "major"
    /\ objs = <<>>
    /\ nextId = 1
    /\ selected = {}
    /\ active = 0
    /\ mats = <<>>
    /\ root = 0
    /\ failed = {}
    /\ scene = DefaultScene
    /\ env = NoEnv
    /\ OUTPUT_DIR = NoPath
    /\ result = None
    /\ log = <<>>
    /\ before = Snapshot
    /\ cfg \in TickConfigs
    /\ locals = [fn |-> "create_gauge", value |-> cfg.min_value, tick_idx |-> 0,
                 passes |-> 0, major |-> <<>>, minor |-> <<>>]

SpecTicks == InitTicks /\ [][NextTicks]_vars

(***************************************************************************)
(* Properties of the tick loops.                                           *)
(***************************************************************************)
\* the passes of the minor loop: pass k stands at min_value + k * minor
MinorPasses == 0 .. locals.passes - 1

\* position k carries a major tick, a minor tick
HasMajorTick(k) ==
    k % cfg.per_major = 0 /\ k \div cfg.per_major < Len(locals.major)
MinorTicksAt(k) == {j \in DOMAIN locals.minor : locals.minor[j].pass = k}

TicksDone == script = "ticks" /\ pc = "done" /\ cfg.per_major > 0

\* C15: minor ticks skip major tick positions: for a config whose major
\* interval is a positive multiple of its minor interval no minor tick is
\* created at a value that has a major tick, every value
\* min_value + k * minor_tick_interval of the scale carries exactly one
\* tick, major or minor, and the minor ticks are numbered 0, 1, ...
\* without gaps.
C15_MinorSkipsMajor ==
    TicksDone =>
        /\ \A k \in MinorPasses :
              /\ ~(HasMajorTick(k) /\ MinorTicksAt(k) # {})
              /\ HasMajorTick(k) \/ Cardinality(MinorTicksAt(k)) = 1
        /\ \A j \in DOMAIN locals.minor : locals.minor[j].index = j - 1

\* a finished scale with a minor tick on a major tick position
C15_MinorOnMajor ==
    /\ TicksDone
    /\ \E k \in MinorPasses : HasMajorTick(k) /\ MinorTicksAt(k) # {}

\* the loops as they run when no addition rounds: the skipping is right for
\* scales whose values are dyadic
C15_ExactScales ==
    (TicksDone /\ cfg.minor_tick_interval \in {FloatOf["0.25"], FloatOf["0.5"]})
        => /\ \A k \in MinorPasses :
                 /\ ~(HasMajorTick(k) /\ MinorTicksAt(k) # {})
                 /\ HasMajorTick(k) \/ Cardinality(MinorTicksAt(k)) = 1
           /\ locals.minor # <<>>

(***************************************************************************)
(* Properties of the gauge loops: termination and the number of ticks.     *)
(***************************************************************************)
\* the major ticks and the number labels of the created gauge
MajorTickObjs == Children(Child(Child(root, "Scale"), "MajorTicks"))
NumberObjs == Children(Child(Child(root, "Scale"), "Numbers"))

GaugeRuns == script \in {"arc", "bar"}
GaugeStarted == GaugeRuns /\ pc = "start"
\* create_gauge or create_bar_gauge has reached its final
\* "created successfully" step
GaugeSucceeded == GaugeRuns /\ pc \in {"select", "done"}

\* the number of major ticks as stated, and with the tolerance of the loops
StatedTicks(config) ==
    (config.max_value - config.min_value) \div config.major_tick_interval + 1
TicksWithin(config) ==
    (config.max_value - config.min_value + Tolerance) \div config.major_tick_interval + 1

\* a created gauge has n(cfg) major ticks and as many number labels
HasTicks(n(_)) ==
    GaugeSucceeded => /\ Cardinality(MajorTickObjs) = n(cfg)
                      /\ Cardinality(NumberObjs) = n(cfg)

C16_Raised ==
    /\ GaugeRuns /\ pc = "raised" /\ cfg.min_value = cfg.max_value
    /\ MajorTickObjs = {}

(***************************************************************************)
(* Properties of the colour zones.                                         *)
(***************************************************************************)
ZoneKinds == {"Zone_Normal", "Zone_Warning", "Zone_Danger"}

\* the range the config gives for a zone kind
ZoneRange(kind, config) ==
    CASE kind = "Zone_Normal" -> config.zone_normal
      [] kind = "Zone_Warning" -> config.zone_warning
      [] kind = "Zone_Danger" -> config.zone_danger

\* the range is not empty and starts below its end
IsProperRange(r) == r # <<>> /\ r[1] < r[2]

\* the range has values in common with the scale, more than a point
OverlapsScale(r, config) == r[1] < config.max_value /\ r[2] > config.min_value

\* a bar zone o of range r spans [y(start), y(end)], inside the tube
BarZoneInScale(o, r, config) ==
    /\ ExtentY2(o, 1000) = <<y_pos2(r[1], config), y_pos2(r[2], config)>>
    /\ tube_bottom_y2(config) <= ExtentY2(o, 1000)[1]
    /\ ExtentY2(o, 1000)[1] <= ExtentY2(o, 1000)[2]
    /\ ExtentY2(o, 1000)[2] <= tube_bottom_y2(config) + 2 * tube_height(config)

\* an arc zone o spans angles of the scale
ArcZoneInScale(o, config) ==
    \A a \in {o.start_angle, o.end_angle} :
        /\ Radians(config.start_angle - config.sweep_angle) <= a
        /\ a <= Radians(config.start_angle)

\* zones are created for proper ranges only, one per kind, within the scale;
\* positive(o, r) is what is said of the size of zone o of range r
ZonesInScale(positive(_, _)) ==
    GaugeSucceeded =>
        \A kind \in ZoneKinds :
            /\ Cardinality(ByName(kind)) <= 1
            /\ \A z \in ByName(kind) :
                  /\ IsProperRange(ZoneRange(kind, cfg))
                  /\ positive(objs[z], ZoneRange(kind, cfg))
                  /\ IF script = "bar"
                     THEN BarZoneInScale(objs[z], ZoneRange(kind, cfg), cfg)
                     ELSE ArcZoneInScale(objs[z], cfg)

\* the height of a bar zone is strictly positive
PositiveHeight(o, r) == script = "bar" => o.dim[2] > 0

\* the height of a bar zone is strictly positive if its range overlaps the
\* scale, and zero if it does not
PositiveIfOverlapping(o, r) ==
    script = "bar" => /\ OverlapsScale(r, cfg) => o.dim[2] > 0
                      /\ ~OverlapsScale(r, cfg) => o.dim[2] = 0

\* C17 (as stated): a colour zone is created only when its range is
\* non-empty with start < end, at most one object per zone kind; every
\* created zone stays within the scale: a bar-gauge zone spans exactly
\* [y(start), y(end)] inside the tube and has strictly positive height, an
\* arc-gauge zone spans angles between start_angle - sweep_angle and
\* start_angle.
C17_ZonesPositive == ZonesInScale(PositiveHeight)

\* C17 (amended): as stated, but the height of a bar-gauge zone is strictly
\* positive only if the zone's range overlaps the scale; a zone whose range
\* lies outside [min_value, max_value] is created with height zero at the
\* end of the tube.
C17_ZonesWithinScale == ZonesInScale(PositiveIfOverlapping)

\* a bar gauge with a zone of height zero, and zones of positive height
C17_Witness ==
    /\ GaugeSucceeded /\ script = "bar"
    /\ \E z \in ByName("Zone_Danger") :
          objs[z].dim[2] = 0 /\ IsProperRange(cfg.zone_danger)
    /\ ByName("Zone_Normal") # {}

\* a zone given end first is not created, one reaching beyond the scale is
C17_ReversedZoneSkipped ==
    /\ GaugeSucceeded /\ cfg.zone_normal = <<>>
    /\ ByName("Zone_Warning") = {} /\ ByName("Zone_Normal") = {}
    /\ \E z \in ByName("Zone_Danger") : objs[z].type = "MESH"

(***************************************************************************)
(* Properties of render_panel_textures.py: device and output directory.    *)
(***************************************************************************)
\* setup_render_settings has run
SettingsDone == script = "render" /\ \E k \in DOMAIN log : log[k] = "settings"

\* some GPU compute type could be enabled: the preferences of the Cycles
\* add-on could be read and one of the types did not raise
ComputeEnabled(e) == e.cycles_addon /\ FirstComputeType(e.compute_ok) # "NONE"

\* C18: in setup_render_settings with RENDER_DEVICE = 'GPU', whenever no GPU
\* compute type (OPTIX, CUDA, HIP, METAL) can be enabled the Cycles device
\* falls back to 'CPU'; the device is left 'GPU' only if some compute type
\* was enabled.
C18_CpuFallback ==
    SettingsDone =>
        /\ ~ComputeEnabled(env) => scene.device = "CPU"
        /\ scene.device = "GPU" => ComputeEnabled(env)

\* the settings are made, every compute type has raised, and the device is
\* 'GPU'
C18_GpuWithoutCompute ==
    /\ SettingsDone /\ env.cycles_addon /\ env.compute_ok = {}
    /\ scene.device = "GPU" /\ env.compute_device_type = "NONE"

\* what the code does: the device is 'CPU' exactly when the preferences of
\* the Cycles add-on cannot be read
C18_CpuOnlyWithoutAddon ==
    SettingsDone => (scene.device = "CPU" <=> ~env.cycles_addon)

\* find_output_dir has returned
OutputDirDone == script = "render" /\ \E k \in DOMAIN log : log[k] = "output_dir"

\* C19: find_output_dir returns True and leaves OUTPUT_DIR set to a path,
\* not None, for every state of the file system and every .blend path,
\* saved or unsaved, also when creating a directory raises; so the
\* "Could not find output directory" branch of render_panel is never taken.
C19_OutputDirAlwaysSet ==
    /\ script = "render" /\ pc = "find_output_dir" => find_output_dir(env).ok
    /\ OutputDirDone =>
          /\ OUTPUT_DIR # NoPath
          /\ result # "False"
          /\ pc = "done" => \E k \in DOMAIN log : log[k] = "render"

\* find_output_dir has returned for an unsaved file after os.makedirs
\* raised: the directory is the desktop
C19_Witness ==
    /\ OutputDirDone /\ env.makedirs_raises /\ env.blend_path = NoPath
    /\ OUTPUT_DIR = JoinPath(env.home, <<"Desktop">>)
    /\ \E c \in Range(Candidates(env)) : Dirname(c) \in env.dirs

(***************************************************************************)
(* Properties of build_panel: the hierarchy.                               *)
(***************************************************************************)
PanelBuilt == script = "panel" /\ pc = "done"

\* the root has no parent and is the one selected and the active object,
\* and every object of ids but the root is a direct child of the root
FlatUnderRoot(ids) ==
    /\ root \in Created /\ objs[root].name = "ReactorOperatorPanel"
    /\ objs[root].type = "EMPTY" /\ objs[root].parent = NoParent
    /\ selected = {root} /\ active = root
    /\ \A i \in ids \ {root} : objs[i].parent = root

=============================================================================

